---- MODULE Spec2Model ----
(***************************************************************************)
(* Accessibility rule engine of pptx_accessibility: the colour mathematics *)
(* (utils/color_utils.py), the document reader's accessors                 *)
(* (pptx_access/reader.py), the three shipped rules (rules/rule_01, _03,   *)
(* _04), the per-rule score (rules/base.py) and the orchestrator           *)
(* (core/analyzer.py).                                                     *)
(*                                                                         *)
(* Python values are encoded as follows.  An optional value (X | None) is  *)
(* a sequence of length 0 (None) or 1 (the value).  A str whose characters *)
(* the code inspects (hex colours, layout names, font names) is a sequence *)
(* of one-character strings; a str that is only compared or measured is a  *)
(* TLA+ string.  A float is an exact rational kept as scaled integers; the *)
(* places where IEEE-754 rounding decides a result are modelled bit-exact  *)
(* (see round_1).                                                          *)
(***************************************************************************)
EXTENDS Integers, Sequences, FiniteSets, TLC

(***************************************************************************)
(* Bounds of the model.                                                    *)
(***************************************************************************)
\* longest document (number of slides) of the orchestrator specification
MaxSlides == 2
\* longest enabled_rules list a caller passes
MaxEnabled == 2

(***************************************************************************)
(* Generic helpers.                                                        *)
(***************************************************************************)
None == <<>>
Some(x) == <<x>>
IsNone(o) == o = <<>>
Val(o) == o[1]

Max(a, b) == IF a >= b THEN a ELSE b

RECURSIVE Pow2(_)
Pow2(k) == IF k = 0 THEN 1 ELSE 2 * Pow2(k - 1)

RECURSIVE SeqConcat(_)
\* list.extend over a sequence of lists
SeqConcat(ss) == IF ss = <<>> THEN <<>> ELSE Head(ss) \o SeqConcat(Tail(ss))

RECURSIVE SeqSum(_)
SeqSum(s) == IF s = <<>> THEN 0 ELSE Head(s) + SeqSum(Tail(s))

SeqsUpTo(S, n) == UNION {[1..k -> S] : k \in 0..n}

\* Python's s[i:j] on a sequence (0-based, clipped to the sequence)
Slice(s, i, j) ==
    LET lo == IF i > Len(s) THEN Len(s) ELSE i
        hi == IF j > Len(s) THEN Len(s) ELSE j
    IN  IF hi <= lo THEN <<>> ELSE SubSeq(s, lo + 1, hi)

\* Python's `sub in s` on strings kept as character sequences
Contains(sub, s) ==
    \E i \in 1..(Len(s) - Len(sub) + 1) : SubSeq(s, i, i + Len(sub) - 1) = sub

UpperChars ==
    <<"A","B","C","D","E","F","G","H","I","J","K","L","M",
      "N","O","P","Q","R","S","T","U","V","W","X","Y","Z">>
LowerChars ==
    <<"a","b","c","d","e","f","g","h","i","j","k","l","m",
      "n","o","p","q","r","s","t","u","v","w","x","y","z">>

\* the lower-case letter of every upper-case letter
LowerTable ==
    [c \in {UpperChars[i] : i \in 1..Len(UpperChars)} |->
        LowerChars[CHOOSE i \in 1..Len(UpperChars) : UpperChars[i] = c]]

LowerChar(c) == IF c \in DOMAIN LowerTable THEN LowerTable[c] ELSE c

\* str.lower()
Lower(s) == [i \in 1..Len(s) |-> LowerChar(s[i])]

\* the outcome of a call that may raise
Ok(v) == [ok |-> TRUE, val |-> v]
Raise(e) == [ok |-> FALSE, exc |-> e]

(***************************************************************************)
(* rules/base.py: Severity, ActionType, Finding.                           *)
(***************************************************************************)
\* an Enum member: its class and its value
Member(enum, value) == [enum |-> enum, value |-> value]

CRITICAL == Member("Severity", "critical")
HIGH == Member("Severity", "high")
MEDIUM == Member("Severity", "medium")
LOW == Member("Severity", "low")
INFO == Member("Severity", "info")
Severity == {CRITICAL, HIGH, MEDIUM, LOW, INFO}

AUTO_FIX == Member("ActionType", "auto_fix")
SUGGEST == Member("ActionType", "suggest")
MANUAL == Member("ActionType", "manual")
ActionType == {AUTO_FIX, SUGGEST, MANUAL}

Finding(rule_id, slide_number, shape_id, severity, title, action_type, metadata) ==
    [rule_id |-> rule_id, slide_number |-> slide_number, shape_id |-> shape_id,
     severity |-> severity, title |-> title, action_type |-> action_type,
     metadata |-> metadata]

(***************************************************************************)
(* utils/color_utils.py                                                    *)
(***************************************************************************)
HexDigits ==
    <<"0","1","2","3","4","5","6","7","8","9","a","b","c","d","e","f">>

\* the value of every hex digit
HexTable ==
    [c \in {HexDigits[i] : i \in 1..16} |->
        (CHOOSE i \in 1..16 : HexDigits[i] = c) - 1]

IsHexChar(c) == LowerChar(c) \in DOMAIN HexTable
HexVal(c) == HexTable[LowerChar(c)]

\* int(p, 16) for a slice p of at most two characters: one or two hex
\* digits, or one digit with a sign or a blank around it; ValueError otherwise
IntBase16(p) ==
    CASE Len(p) = 1 /\ IsHexChar(p[1]) -> Ok(HexVal(p[1]))
      [] Len(p) = 2 /\ IsHexChar(p[1]) /\ IsHexChar(p[2]) ->
            Ok(16 * HexVal(p[1]) + HexVal(p[2]))
      [] Len(p) = 2 /\ p[1] \in {"+", " "} /\ IsHexChar(p[2]) -> Ok(HexVal(p[2]))
      [] Len(p) = 2 /\ p[1] = "-" /\ IsHexChar(p[2]) -> Ok(0 - HexVal(p[2]))
      [] Len(p) = 2 /\ IsHexChar(p[1]) /\ p[2] = " " -> Ok(HexVal(p[1]))
      [] OTHER -> Raise("ValueError")

RECURSIVE LStripHash(_)
\* str.lstrip('#'): every leading '#' is removed
LStripHash(s) == IF s # <<>> /\ Head(s) = "#" THEN LStripHash(Tail(s)) ELSE s

\* the tuple of the three parsed channels, or the ValueError of int()
RgbOf(r, g, b) ==
    IF r.ok /\ g.ok /\ b.ok THEN Ok(<<r.val, g.val, b.val>>)
    ELSE Raise("ValueError")

\* tuple(int(h[i:i+2], 16) for i in (0, 2, 4)), h the string without '#'
HexChannels(h) ==
    RgbOf(IntBase16(Slice(h, 0, 2)), IntBase16(Slice(h, 2, 4)),
          IntBase16(Slice(h, 4, 6)))

hex_to_rgb(hex_color) == HexChannels(LStripHash(hex_color))

\* f"{v:02x}"
Hex2(v) ==
    IF v >= 0 THEN <<HexDigits[(v \div 16) + 1], HexDigits[(v % 16) + 1]>>
    ELSE IF v > -16 THEN <<"-", HexDigits[(0 - v) + 1]>>
    ELSE <<"-", HexDigits[((0 - v) \div 16) + 1], HexDigits[((0 - v) % 16) + 1]>>

rgb_to_hex(r, g, b) == <<"#">> \o Hex2(r) \o Hex2(g) \o Hex2(b)

\* gamma_correct(v / 255.0) for v = 0..255, in units of 10^-5, rounded to
\* the nearest unit: v/255/12.92 up to 0.03928, ((x + 0.055)/1.055)^2.4 above
GammaTable ==
    <<
       0, 30, 61, 91, 121, 152, 182, 212, 243, 273, 304, 335, 368, 402, 439, 478,
       518, 561, 605, 651, 700, 750, 802, 857, 913, 972, 1033, 1096, 1161, 1229, 1298, 1370,
       1444, 1521, 1600, 1681, 1764, 1850, 1938, 2029, 2122, 2217, 2315, 2416, 2519, 2624, 2732, 2843,
       2956, 3071, 3190, 3310, 3434, 3560, 3689, 3820, 3955, 4092, 4231, 4374, 4519, 4667, 4817, 4971,
       5127, 5286, 5448, 5613, 5781, 5951, 6125, 6301, 6480, 6663, 6848, 7036, 7227, 7421, 7619, 7819,
       8022, 8228, 8438, 8650, 8866, 9084, 9306, 9531, 9759, 9990, 10224, 10462, 10702, 10946, 11193, 11444,
       11697, 11954, 12214, 12477, 12744, 13014, 13287, 13563, 13843, 14126, 14413, 14703, 14996, 15293, 15593, 15896,
       16203, 16513, 16827, 17144, 17465, 17789, 18116, 18447, 18782, 19120, 19462, 19807, 20156, 20508, 20864, 21223,
       21586, 21953, 22323, 22697, 23074, 23455, 23840, 24228, 24620, 25016, 25415, 25818, 26225, 26636, 27050, 27468,
       27889, 28315, 28744, 29177, 29614, 30054, 30499, 30947, 31399, 31855, 32314, 32778, 33245, 33716, 34191, 34670,
       35153, 35640, 36131, 36625, 37124, 37626, 38133, 38643, 39157, 39676, 40198, 40724, 41254, 41789, 42327, 42869,
       43415, 43966, 44520, 45079, 45641, 46208, 46778, 47353, 47932, 48515, 49102, 49693, 50289, 50888, 51492, 52100,
       52712, 53328, 53948, 54572, 55201, 55834, 56471, 57112, 57758, 58408, 59062, 59720, 60383, 61050, 61721, 62396,
       63076, 63760, 64448, 65141, 65837, 66539, 67244, 67954, 68669, 69387, 70110, 70838, 71569, 72306, 73046, 73791,
       74540, 75294, 76052, 76815, 77582, 78354, 79130, 79910, 80695, 81485, 82279, 83077, 83880, 84687, 85499, 86316,
       87137, 87962, 88792, 89627, 90466, 91310, 92158, 93011, 93869, 94731, 95597, 96469, 97345, 98225, 99110, 100000 >>

\* the linear branch for the channels -1..-15 that int('-f', 16) can give
GammaNegTable == <<30, 61, 91, 121, 152, 182, 212, 243, 273, 304, 334, 364, 395, 425, 455>>

gamma_correct(v) == IF v < 0 THEN 0 - GammaNegTable[0 - v] ELSE GammaTable[v + 1]

\* relative luminance in units of 10^-6
get_relative_luminance(rgb) ==
    (2126 * gamma_correct(rgb[1]) + 7152 * gamma_correct(rgb[2])
        + 722 * gamma_correct(rgb[3])) \div 1000

\* variant: the luminances are not ordered before the division
RatioOfUnordered(lum1, lum2) == [num |-> lum1 + 50000, den |-> lum2 + 50000]

\* (lum1 + 0.05) / (lum2 + 0.05) after the swap that makes lum1 the
\* lighter: the ratio as the fraction num/den of the offset luminances
RatioOf(lum1, lum2) ==
    IF lum1 < lum2 THEN [num |-> lum2 + 50000, den |-> lum1 + 50000]
    ELSE [num |-> lum1 + 50000, den |-> lum2 + 50000]

\* the ratio of two parsed colours, or the ValueError of hex_to_rgb
ContrastOf(rgb1, rgb2) ==
    IF ~rgb1.ok \/ ~rgb2.ok THEN Raise("ValueError")
    ELSE Ok(RatioOf(get_relative_luminance(rgb1.val),
                    get_relative_luminance(rgb2.val)))

get_contrast_ratio(color1, color2) ==
    ContrastOf(hex_to_rgb(color1), hex_to_rgb(color2))

\* ratio >= tenths/10, for a ratio num/den with den > 0
RatioAtLeast(ratio, tenths) == 10 * ratio.num >= tenths * ratio.den

\* variant: one threshold, 4.5, for every text size
meets_wcag_aa_one_threshold(contrast_ratio, large_text) ==
    RatioAtLeast(contrast_ratio, 45)

\* large_text is any Python value, used for its truth
meets_wcag_aa(contrast_ratio, large_text) ==
    IF large_text THEN RatioAtLeast(contrast_ratio, 30)
    ELSE RatioAtLeast(contrast_ratio, 45)

meets_wcag_aaa(contrast_ratio, large_text) ==
    IF large_text THEN RatioAtLeast(contrast_ratio, 45)
    ELSE RatioAtLeast(contrast_ratio, 70)

\* int(n / d) for d > 0: truncation towards zero
PyInt(n, d) == IF n >= 0 THEN n \div d ELSE 0 - ((0 - n) \div d)

\* range(1, 20)
Factors == 1..19

\* the channels c and steps factor where the double c * (1 - factor * 0.05)
\* lies below the integer c * (20 - factor) / 20 (1 - factor * 0.05 is then
\* a double below (20 - factor) / 20 and the product is not rounded back up)
DarkerRoundsBelow(c, factor) ==
    /\ c > 0
    /\ (c * (20 - factor)) % 20 = 0
    /\ \/ factor \in {7, 12, 14, 16, 17, 18, 19}
       \/ factor = 6 /\ c \in {90, 170, 180}
       \/ factor = 11 /\ c \in {60, 100, 120, 140, 180, 200, 220, 240}
       \/ factor = 13 /\ c = 180

\* max(0, int(c * (1 - factor * 0.05)))
darker_channel(c, factor) ==
    LET v == PyInt(c * (20 - factor), 20)
                 - (IF DarkerRoundsBelow(c, factor) THEN 1 ELSE 0)
    IN  IF v < 0 THEN 0 ELSE v

\* min(255, int(c + (255 - c) * factor * 0.05))
lighter_channel(c, factor) ==
    LET v == PyInt(20 * c + (255 - c) * factor, 20)
    IN  IF v > 255 THEN 255 ELSE v

darker_hex(rgb, factor) ==
    rgb_to_hex(darker_channel(rgb[1], factor), darker_channel(rgb[2], factor),
               darker_channel(rgb[3], factor))

lighter_hex(rgb, factor) ==
    rgb_to_hex(lighter_channel(rgb[1], factor), lighter_channel(rgb[2], factor),
               lighter_channel(rgb[3], factor))

\* the steps of the loop whose candidate reaches the target (in tenths);
\* the candidates are '#' and six hex digits, so only the background can
\* make get_contrast_ratio raise, and then it does at the first step
DarkerSteps(rgb, target_contrast, background) ==
    {factor \in Factors :
        RatioAtLeast(get_contrast_ratio(darker_hex(rgb, factor), background).val,
                     target_contrast)}

\* variant: the first candidate is returned without looking at its ratio
DarkerResultFirstStep(rgb, steps) == Ok(darker_hex(rgb, 1))

\* the candidate of the first step that reaches the target, or black
DarkerResult(rgb, steps) ==
    IF steps = {} THEN Ok(<<"#","0","0","0","0","0","0">>)
    ELSE Ok(darker_hex(rgb, CHOOSE factor \in steps : \A k \in steps : factor <= k))

DarkerOf(rgb, target_contrast, background) ==
    IF ~rgb.ok THEN rgb
    ELSE IF ~hex_to_rgb(background).ok THEN Raise("ValueError")
    ELSE DarkerResult(rgb.val, DarkerSteps(rgb.val, target_contrast, background))

suggest_darker_color(hex_color, target_contrast, background) ==
    DarkerOf(hex_to_rgb(hex_color), target_contrast, background)

LighterSteps(rgb, target_contrast, background) ==
    {factor \in Factors :
        RatioAtLeast(get_contrast_ratio(lighter_hex(rgb, factor), background).val,
                     target_contrast)}

\* the candidate of the first step that reaches the target, or white
LighterResult(rgb, steps) ==
    IF steps = {} THEN Ok(<<"#","F","F","F","F","F","F">>)
    ELSE Ok(lighter_hex(rgb, CHOOSE factor \in steps : \A k \in steps : factor <= k))

LighterOf(rgb, target_contrast, background) ==
    IF ~rgb.ok THEN rgb
    ELSE IF ~hex_to_rgb(background).ok THEN Raise("ValueError")
    ELSE LighterResult(rgb.val, LighterSteps(rgb.val, target_contrast, background))

suggest_lighter_color(hex_color, target_contrast, background) ==
    LighterOf(hex_to_rgb(hex_color), target_contrast, background)

(***************************************************************************)
(* pptx_access/reader.py: the loaded presentation.  A document is what the *)
(* reader extracts from the file: its core title and, per slide, the       *)
(* stripped title text (or None), the layout name and the text shapes with *)
(* their runs.                                                             *)
(***************************************************************************)
get_slide_count(doc) == Len(doc.slides)

get_slide_title(doc, slide_index) == doc.slides[slide_index + 1].title

has_title(doc, slide_index) ==
    LET title == get_slide_title(doc, slide_index)
    IN  ~IsNone(title) /\ Len(Val(title)) > 0

get_slide_layout_name(doc, slide_index) == doc.slides[slide_index + 1].layout_name

get_all_text_shapes(doc, slide_index) == doc.slides[slide_index + 1].shapes

\* core_props.title or "Untitled"
get_presentation_metadata(doc) ==
    [title |-> IF IsNone(doc.core_title) \/ Val(doc.core_title) = ""
               THEN "Untitled" ELSE Val(doc.core_title),
     slide_count |-> get_slide_count(doc)]

\* str(n) of a shape id: the decimal text of n
Str(n) == <<"str", n>>

\* truth of an optional bool (run.font.bold, run.font.italic)
TruthyFlag(o) == ~IsNone(o) /\ Val(o)
\* truth of an optional number (font_size)
TruthyNum(o) == ~IsNone(o) /\ Val(o) # 0
\* truth of an optional str
TruthyStr(o) == ~IsNone(o) /\ Len(Val(o)) > 0

(***************************************************************************)
(* rules/rule_01_structure.py                                              *)
(***************************************************************************)
BlankWord == <<"b","l","a","n","k">>

\* variant: a title counts as too short below 2 characters
StructureTitleFindingsLax(doc, slide_idx) ==
    LET title == get_slide_title(doc, slide_idx)
    IN  IF ~has_title(doc, slide_idx) \/ ~TruthyStr(title)
        THEN <<Finding("rule_01", slide_idx + 1, None, CRITICAL,
                       "Missing slide title", SUGGEST,
                       [layout_name |-> get_slide_layout_name(doc, slide_idx)])>>
        ELSE IF TruthyStr(title) /\ Len(Val(title)) < 2
        THEN <<Finding("rule_01", slide_idx + 1, None, MEDIUM,
                       "Title too short", SUGGEST,
                       [current_title |-> Val(title),
                        title_length |-> Len(Val(title))])>>
        ELSE <<>>

\* the title check of one slide: at most one finding
StructureTitleFindings(doc, slide_idx) ==
    LET title == get_slide_title(doc, slide_idx)
    IN  IF ~has_title(doc, slide_idx) \/ ~TruthyStr(title)
        THEN <<Finding("rule_01", slide_idx + 1, None, CRITICAL,
                       "Missing slide title", SUGGEST,
                       [layout_name |-> get_slide_layout_name(doc, slide_idx)])>>
        ELSE IF TruthyStr(title) /\ Len(Val(title)) < 3
        THEN <<Finding("rule_01", slide_idx + 1, None, MEDIUM,
                       "Title too short", SUGGEST,
                       [current_title |-> Val(title),
                        title_length |-> Len(Val(title))])>>
        ELSE <<>>

\* variant: the layout name is searched as written, without lower()
StructureLayoutFindingsCased(doc, slide_idx) ==
    LET layout_name == get_slide_layout_name(doc, slide_idx)
        text_shapes == get_all_text_shapes(doc, slide_idx)
        non_placeholder_count ==
            Cardinality({i \in 1..Len(text_shapes) : ~text_shapes[i].is_placeholder})
    IN  IF Contains(BlankWord, layout_name) /\ non_placeholder_count > 0
        THEN <<Finding("rule_01", slide_idx + 1, None, MEDIUM,
                       "Blank layout with text boxes", SUGGEST,
                       [layout_name |-> layout_name,
                        non_placeholder_count |-> non_placeholder_count])>>
        ELSE <<>>

\* the layout check of one slide
StructureLayoutFindings(doc, slide_idx) ==
    LET layout_name == get_slide_layout_name(doc, slide_idx)
        text_shapes == get_all_text_shapes(doc, slide_idx)
        non_placeholder_count ==
            Cardinality({i \in 1..Len(text_shapes) : ~text_shapes[i].is_placeholder})
    IN  IF Contains(BlankWord, Lower(layout_name)) /\ non_placeholder_count > 0
        THEN <<Finding("rule_01", slide_idx + 1, None, MEDIUM,
                       "Blank layout with text boxes", SUGGEST,
                       [layout_name |-> layout_name,
                        non_placeholder_count |-> non_placeholder_count])>>
        ELSE <<>>

\* variant: findings carry the 0-based slide index
StructureRule_analyze_zero_based(doc) ==
    LET fs == SeqConcat([k \in 1..get_slide_count(doc) |->
                  StructureTitleFindings(doc, k - 1)
                  \o StructureLayoutFindings(doc, k - 1)])
    IN  [i \in 1..Len(fs) |-> [fs[i] EXCEPT !.slide_number = @ - 1]]

StructureRule_analyze(doc) ==
    SeqConcat([k \in 1..get_slide_count(doc) |->
        StructureTitleFindings(doc, k - 1) \o StructureLayoutFindings(doc, k - 1)])

\* apply_fix: what it returns and the document it leaves
StructureRule_apply_fix(doc, finding) == [applied |-> FALSE, doc |-> doc]

(***************************************************************************)
(* rules/rule_03_contrast.py                                               *)
(***************************************************************************)
\* the assumed background
WhiteBackground == <<"#","F","F","F","F","F","F">>

\* the value of is_large_text, a Python object: None or 0 when font_size is,
\* a bool otherwise
IsLargeTextValue(run) ==
    LET font_size == run.font_size
        first == IF IsNone(font_size) THEN [t |-> "None"]
                 ELSE IF Val(font_size) = 0 THEN [t |-> "num", v |-> 0]
                 ELSE [t |-> "bool", v |-> Val(font_size) >= 18]
    IN  IF TruthyNum(font_size) /\ Val(font_size) >= 14 /\ TruthyFlag(run.bold)
        THEN [t |-> "bool", v |-> TRUE]
        ELSE first

Truthy(pv) == pv.t = "bool" /\ pv.v

\* variant: CRITICAL up to 3.0, no HIGH
ContrastSeverityTwoLevels(ratio) ==
    IF ~RatioAtLeast(ratio, 30) THEN CRITICAL ELSE MEDIUM

ContrastSeverity(ratio) ==
    IF ~RatioAtLeast(ratio, 20) THEN CRITICAL
    ELSE IF ~RatioAtLeast(ratio, 30) THEN HIGH
    ELSE MEDIUM

\* lines 70-114 for one run, from the values computed in the try block:
\* nothing when one of them raised or the ratio meets AA, else the finding
ContrastFinding(slide_idx, shape, font_color, contrast_ratio, is_large_text, suggested_color) ==
    IF ~contrast_ratio.ok THEN <<>>
    ELSE IF meets_wcag_aa(contrast_ratio.val, Truthy(is_large_text)) THEN <<>>
    ELSE IF ~suggested_color.ok THEN <<>>
    ELSE <<Finding("rule_03", slide_idx + 1, Some(Str(shape.shape_id)),
                   ContrastSeverity(contrast_ratio.val),
                   "Insufficient color contrast", AUTO_FIX,
                   [current_color |-> font_color,
                    background_color |-> WhiteBackground,
                    required_ratio |-> IF Truthy(is_large_text) THEN 30 ELSE 45,
                    suggested_color |-> suggested_color.val,
                    is_large_text |-> is_large_text])>>

\* target_contrast=4.5 if not is_large_text else 3.0, in tenths
TargetContrast(is_large_text) == IF ~Truthy(is_large_text) THEN 45 ELSE 30

\* the body of the loop over runs: the findings of one run
ContrastRunFindings(slide_idx, shape, run) ==
    IF ~TruthyStr(run.font_color) THEN <<>>
    ELSE ContrastFinding(slide_idx, shape, Val(run.font_color),
             get_contrast_ratio(Val(run.font_color), WhiteBackground),
             IsLargeTextValue(run),
             suggest_darker_color(Val(run.font_color),
                                  TargetContrast(IsLargeTextValue(run)),
                                  WhiteBackground))

\* the runs a rule visits in one shape: none without text frame info
ShapeRuns(shape) ==
    IF IsNone(shape.text_frame) THEN <<>> ELSE Val(shape.text_frame).runs

ContrastShapeFindings(slide_idx, shape) ==
    SeqConcat([r \in 1..Len(ShapeRuns(shape)) |->
        ContrastRunFindings(slide_idx, shape, ShapeRuns(shape)[r])])

ContrastRule_analyze(doc) ==
    SeqConcat([k \in 1..get_slide_count(doc) |->
        SeqConcat([s \in 1..Len(get_all_text_shapes(doc, k - 1)) |->
            ContrastShapeFindings(k - 1, get_all_text_shapes(doc, k - 1)[s])])])

ContrastRule_apply_fix(doc, finding) == [applied |-> FALSE, doc |-> doc]

(***************************************************************************)
(* rules/rule_04_fonts.py                                                  *)
(***************************************************************************)
min_font_size == 24

Arial == <<"A","r","i","a","l">>
Calibri == <<"C","a","l","i","b","r","i">>
Helvetica == <<"H","e","l","v","e","t","i","c","a">>
Tahoma == <<"T","a","h","o","m","a">>
Verdana == <<"V","e","r","d","a","n","a">>
SegoeUI == <<"S","e","g","o","e"," ","U","I">>
preferred_fonts == {Arial, Calibri, Helvetica, Tahoma, Verdana, SegoeUI}

TimesNewRoman == <<"T","i","m","e","s"," ","N","e","w"," ","R","o","m","a","n">>
Georgia == <<"G","e","o","r","g","i","a">>
Garamond == <<"G","a","r","a","m","o","n","d">>
Palatino == <<"P","a","l","a","t","i","n","o">>
serif_fonts == {TimesNewRoman, Georgia, Garamond, Palatino}

FontsSizeFindings(slide_idx, shape, run) ==
    IF TruthyNum(run.font_size) /\ Val(run.font_size) < min_font_size
    THEN <<Finding("rule_04", slide_idx + 1, Some(Str(shape.shape_id)), MEDIUM,
                   "Text too small", AUTO_FIX,
                   [current_size |-> Val(run.font_size),
                    recommended_size |-> min_font_size])>>
    ELSE <<>>

FontsSerifFindings(slide_idx, shape, run) ==
    IF /\ Len(run.font_name) > 0
       /\ run.font_name \notin preferred_fonts
       /\ \E serif \in serif_fonts : Contains(serif, run.font_name)
    THEN <<Finding("rule_04", slide_idx + 1, Some(Str(shape.shape_id)), LOW,
                   "Serif font detected", SUGGEST,
                   [current_font |-> run.font_name, suggested_font |-> Arial])>>
    ELSE <<>>

\* variant: italics are excessive from 50 characters on
FontsItalicFindingsFrom50(slide_idx, shape, run) ==
    IF TruthyFlag(run.italic) /\ Len(run.text) >= 50
    THEN <<Finding("rule_04", slide_idx + 1, Some(Str(shape.shape_id)), LOW,
                   "Excessive italic text", SUGGEST,
                   [text_length |-> Len(run.text)])>>
    ELSE <<>>

FontsItalicFindings(slide_idx, shape, run) ==
    IF TruthyFlag(run.italic) /\ Len(run.text) > 50
    THEN <<Finding("rule_04", slide_idx + 1, Some(Str(shape.shape_id)), LOW,
                   "Excessive italic text", SUGGEST,
                   [text_length |-> Len(run.text)])>>
    ELSE <<>>

FontsShapeFindings(slide_idx, shape) ==
    SeqConcat([r \in 1..Len(ShapeRuns(shape)) |->
        FontsSizeFindings(slide_idx, shape, ShapeRuns(shape)[r])
        \o FontsSerifFindings(slide_idx, shape, ShapeRuns(shape)[r])
        \o FontsItalicFindings(slide_idx, shape, ShapeRuns(shape)[r])])

FontsRule_analyze(doc) ==
    SeqConcat([k \in 1..get_slide_count(doc) |->
        SeqConcat([s \in 1..Len(get_all_text_shapes(doc, k - 1)) |->
            FontsShapeFindings(k - 1, get_all_text_shapes(doc, k - 1)[s])])])

\* True for an AUTO_FIX finding, though nothing is written yet
FontsRule_apply_fix(doc, finding) ==
    [applied |-> finding.action_type = AUTO_FIX, doc |-> doc]

(***************************************************************************)
(* rules/base.py: BaseRule.calculate_score.  Scores are kept in tenths.    *)
(***************************************************************************)
\* severity_weights of calculate_score
severity_weights(sev) ==
    CASE sev = CRITICAL -> 10
      [] sev = HIGH -> 5
      [] sev = MEDIUM -> 2
      [] sev = LOW -> 1
      [] sev = INFO -> 0

max_weight == 100

\* total_weight / max_weight * 100 is total_weight up to one unit in the
\* last place, which round(score, 1) removes: the score is a whole number
calculate_score(findings) ==
    IF findings = <<>> THEN 1000
    ELSE LET total_weight ==
                 SeqSum([i \in 1..Len(findings) |-> severity_weights(findings[i].severity)])
         IN  10 * Max(0, 100 - (total_weight * 100) \div max_weight)

(***************************************************************************)
(* core/analyzer.py: scoring and grouping.                                 *)
(***************************************************************************)
\* sum(1 for f in findings if f.severity == sev)
CountSeverity(findings, sev) ==
    Cardinality({i \in 1..Len(findings) : findings[i].severity = sev})

\* the dict keyed "critical", "high", "medium", "low", "info"
SeverityCounts(findings) ==
    [name \in {sev.value : sev \in Severity} |->
        CountSeverity(findings, Member("Severity", name))]

\* variant: the penalty with the weights of BaseRule.calculate_score, where
\* an INFO finding weighs nothing
Penalty2InfoFree(severity_counts) ==
      severity_counts["critical"] * 20
    + severity_counts["high"] * 10
    + severity_counts["medium"] * 4
    + severity_counts["low"] * 2

\* twice the penalty (the INFO weight is 0.5), a whole number
Penalty2(severity_counts) ==
      severity_counts["critical"] * 20
    + severity_counts["high"] * 10
    + severity_counts["medium"] * 4
    + severity_counts["low"] * 2
    + severity_counts["info"] * 1

\* max(0, 100 - penalty / slide_count) as the exact fraction num/den
OverallScore(penalty2, slide_count) ==
    [num |-> Max(0, 200 * slide_count - penalty2), den |-> 2 * slide_count]

\* the exponent j of the binade [2^j, 2^(j+1)) that holds m/20, 1 <= m < 2000
Binade20(m) ==
    CHOOSE j \in (0 - 5)..6 :
        Pow2(j + 5) * 20 <= 32 * m /\ 32 * m < Pow2(j + 6) * 20

\* the place of m/20 between two neighbouring doubles, in fifths of their
\* distance: (m/20) / ulp = m * 2^(50-j) / 5, and 2^4 = 1 (mod 5)
Fifths(m) == (m * Pow2((50 - Binade20(m)) % 4)) % 5

\* round(x, 1) of the double x the code computes for a score whose exact
\* value is the tie fl/10 + 1/20.  penalty / slide_count is the double
\* nearest to q = 100 - m/20, off by eq5/5 of its unit; 100 - that is exact
\* when q's unit is no finer than the score's, and is rounded to the
\* nearest double (ties to the even one) otherwise.  round() then goes up
\* iff the double lies above the tie, or on it with fl odd.
TieRoundsUp(fl) ==
    LET m == 2 * fl + 1
        mq == 2000 - m
        rx == Fifths(m)
        rq == Fifths(mq)
        jx == Binade20(m)
        jq == Binade20(mq)
        eq5 == IF rq <= 2 THEN 0 - rq ELSE 5 - rq
        d == jx - jq
        a2 == 2 * (rx * Pow2(d) - eq5)
        d5 == 5 * Pow2(d)
    IN  IF rx = 0 THEN fl % 2 = 1
        ELSE IF jq >= jx THEN eq5 < 0
        ELSE IF a2 = d5 THEN rx % 2 = 1
        ELSE a2 > d5

\* round(overall_score, 1), in tenths
round_1(score) ==
    LET fl == (10 * score.num) \div score.den
        rem == 10 * score.num - fl * score.den
    IN  IF 2 * rem < score.den THEN fl
        ELSE IF 2 * rem > score.den THEN fl + 1
        ELSE IF TieRoundsUp(fl) THEN fl + 1 ELSE fl

\* score >= n for a fraction score and a whole number n
ScoreAtLeast(score, n) == score.num >= n * score.den

Grade(overall_score) ==
    IF ScoreAtLeast(overall_score, 90) THEN "A"
    ELSE IF ScoreAtLeast(overall_score, 75) THEN "B"
    ELSE IF ScoreAtLeast(overall_score, 60) THEN "C"
    ELSE IF ScoreAtLeast(overall_score, 40) THEN "D"
    ELSE "F"

\* penalty / slide_count: ZeroDivisionError for no slides
PenaltyPerSlide(penalty2, slide_count) ==
    IF slide_count = 0 THEN Raise("ZeroDivisionError")
    ELSE Ok(OverallScore(penalty2, slide_count))

\* variant: no guard, the division is always reached
ZeroSlidesUnchecked(slide_count) == FALSE

\* the guard on the slide count that opens _calculate_scores
ZeroSlides(slide_count) == slide_count = 0

\* overall_score is in tenths
_calculate_scores(findings, slide_count) ==
    IF ZeroSlides(slide_count) THEN Ok([overall_score |-> 1000, grade |-> "A"])
    ELSE LET severity_counts == SeverityCounts(findings)
             overall_score == PenaltyPerSlide(Penalty2(severity_counts), slide_count)
         IN  IF ~overall_score.ok THEN overall_score
             ELSE Ok([overall_score |-> round_1(overall_score.val),
                      grade |-> Grade(overall_score.val),
                      severity_counts |-> severity_counts,
                      total_issues |-> Len(findings)])

\* variant: only the severities met in the list get a key
_group_by_severity_sparse(findings) ==
    [name \in {findings[i].severity.value : i \in 1..Len(findings)} |->
        CountSeverity(findings, Member("Severity", name))]

_group_by_severity(findings) == SeverityCounts(findings)

\* variant: a key for every slide up to the last one with a finding
_group_by_slide_dense(findings) ==
    [n \in UNION {1..findings[i].slide_number : i \in 1..Len(findings)} |->
        Cardinality({i \in 1..Len(findings) : findings[i].slide_number = n})]

\* a dict: the keys are the slide numbers met in the list
_group_by_slide(findings) ==
    [n \in {findings[i].slide_number : i \in 1..Len(findings)} |->
        Cardinality({i \in 1..Len(findings) : findings[i].slide_number = n})]

\* the JSON form of a finding: the enum members give way to their values
_finding_to_dict(finding) ==
    [finding EXCEPT !.severity = finding.severity.value,
                    !.action_type = finding.action_type.value]

(***************************************************************************)
(* core/analyzer.py: the registry and analyze_presentation.                *)
(***************************************************************************)
\* the keys of self.available_rules, in insertion order
available_rules == <<"rule_01", "rule_03", "rule_04">>

RegisteredIds == {available_rules[i] : i \in 1..Len(available_rules)}

\* self.available_rules[rule_id].analyze(presentation, context)
RuleAnalyze(rule_id, d) ==
    CASE rule_id = "rule_01" -> StructureRule_analyze(d)
      [] rule_id = "rule_03" -> ContrastRule_analyze(d)
      [] rule_id = "rule_04" -> FontsRule_analyze(d)

\* rule_id not in self.available_rules
\* variant: analyze drops the slides it has visited
DocAfterAnalyzeConsumes(rule_id, d) == [d EXCEPT !.slides = <<>>]

\* the document after rule.analyze, whether it returned or raised: the rules
\* only call the reader's accessors, which build new lists and dicts
DocAfterAnalyze(rule_id, d) == d

IsUnknownRule(rule_id) == rule_id \notin RegisteredIds

\* variant: the registered rules the caller listed, in registry order
RulesToRunRegistryOrder(arg) ==
    LET Listed(id) == \E i \in 1..Len(Val(arg)) : Val(arg)[i] = id
    IN  IF IsNone(arg) THEN available_rules ELSE SelectSeq(available_rules, Listed)

\* variant: no default, an omitted list runs nothing
RulesToRunNoDefault(arg) == IF IsNone(arg) THEN <<>> ELSE Val(arg)

\* enabled_rules = list(self.available_rules.keys()) when it is None
RulesToRun(arg) == IF IsNone(arg) THEN available_rules ELSE Val(arg)

\* d[k] = v on a dict
DictSet(d, k, v) == [x \in (DOMAIN d) \cup {k} |-> IF x = k THEN v ELSE d[x]]

EmptyDict == [x \in {} |-> 0]

(***************************************************************************)
(* Documents and requests the model draws from.                            *)
(***************************************************************************)
Black == <<"#","0","0","0","0","0","0">>
LightGrey == <<"#","c","c","c","c","c","c">>
MidGrey == <<"#","9","9","9","9","9","9">>

UnknownFont == <<"U","n","k","n","o","w","n">>

\* 28pt black Calibri: no rule objects
RunPlain ==
    [text |-> "Quarterly results", font_name |-> Calibri, font_size |-> Some(28),
     bold |-> None, italic |-> None, font_color |-> Some(Black)]

\* 12pt light grey Times New Roman
RunFaint ==
    [text |-> "terms and conditions apply", font_name |-> TimesNewRoman,
     font_size |-> Some(12), bold |-> Some(FALSE), italic |-> Some(FALSE),
     font_color |-> Some(LightGrey)]

\* 20pt mid grey Arial, 60 characters in italics
RunGrey ==
    [text |-> "123456789012345678901234567890123456789012345678901234567890",
     font_name |-> Arial, font_size |-> Some(20), bold |-> None,
     italic |-> Some(TRUE), font_color |-> Some(MidGrey)]

\* a run with no font set: the reader reports "Unknown", no size, no colour
RunBare ==
    [text |-> "n/a", font_name |-> UnknownFont, font_size |-> None,
     bold |-> None, italic |-> None, font_color |-> None]

SlideGood ==
    [title |-> Some("Overview"),
     layout_name |-> <<"T","i","t","l","e"," ","a","n","d"," ",
                       "C","o","n","t","e","n","t">>,
     shapes |-> <<[shape_id |-> 2, is_placeholder |-> TRUE,
                   text_frame |-> Some([runs |-> <<RunPlain>>])]>>]

SlideBare ==
    [title |-> None,
     layout_name |-> <<"B","l","a","n","k">>,
     shapes |-> <<[shape_id |-> 4, is_placeholder |-> FALSE,
                   text_frame |-> Some([runs |-> <<RunFaint>>])]>>]

SlideShort ==
    [title |-> Some("Hi"),
     layout_name |-> <<"T","i","t","l","e"," ","O","n","l","y">>,
     shapes |-> <<[shape_id |-> 2, is_placeholder |-> TRUE,
                   text_frame |-> Some([runs |-> <<RunGrey, RunBare>>])],
                  [shape_id |-> 5, is_placeholder |-> FALSE,
                   text_frame |-> None]>>]

FixtureSlides == {SlideGood, SlideBare, SlideShort}

Docs == [core_title : {Some("Deck")}, slides : SeqsUpTo(FixtureSlides, MaxSlides)]

EmptyDoc == [core_title |-> None, slides |-> <<>>]

\* the ids a caller may list: the registered ones and one that is not
RequestIds == RegisteredIds \cup {"rule_02"}

Requests == {None} \cup {Some(s) : s \in SeqsUpTo(RequestIds, MaxEnabled)}

(***************************************************************************)
(* State.                                                                  *)
(***************************************************************************)
VARIABLES
    doc,            \* the presentation passed to analyze_presentation
    enabled_arg,    \* the enabled_rules argument: None or a list of ids
    raisers,        \* the registered rules whose analyze raises on this document
    pc,             \* "idle", "call", "loop", "returned" or "raised"
    enabled_rules,  \* the local enabled_rules
    idx,            \* position of the for loop in enabled_rules
    all_findings,   \* the local all_findings
    rule_results,   \* the local rule_results: rule id -> its findings
    calls,          \* the rule ids whose analyze was awaited, in order
    result,         \* what analyze_presentation returned, or None
    score_findings,     \* scoring functions called directly: the findings
    score_slide_count,  \* ... and the slide count passed
    scores_out,         \* outcome of _calculate_scores, or None
    rule_score_out,     \* value of calculate_score, or None
    probe_doc,          \* a rule called directly: the presentation
    probe_rule,         \* ... the rule's id
    probe_found,        \* ... what its analyze returned, or None
    fix_out,            \* the finding passed to apply_fix and its outcome, or None
    registry,           \* two invocations on one analyzer: self.available_rules
    t_in,               \* ... per invocation, its arguments
    t_loc,              \* ... per invocation, its position and locals
    t_lists,            \* ... the all_findings lists
    t_out,              \* ... per invocation, what it returned, or None
    util_call,          \* a colour utility called directly: its name and argument
    util_out,           \* ... what it returned or raised, or None
    manager_bound,      \* the API: whether api.app has the name session_manager
    sessions,           \* ... sessions/<id>.json: session id -> session data
    files,              \* ... uploads/: path -> content of the file
    response            \* ... the last request and its response, or None

orch_vars == <<doc, enabled_arg, raisers, pc, enabled_rules, idx, all_findings,
               rule_results, calls, result>>
score_vars == <<score_findings, score_slide_count, scores_out, rule_score_out>>
probe_vars == <<probe_doc, probe_rule, probe_found, fix_out>>
two_vars == <<registry, t_in, t_loc, t_lists, t_out>>
util_vars == <<util_call, util_out>>
api_vars == <<manager_bound, sessions, files, response>>
vars == <<doc, enabled_arg, raisers, pc, enabled_rules, idx, all_findings,
          rule_results, calls, result,
          score_findings, score_slide_count, scores_out, rule_score_out,
          probe_doc, probe_rule, probe_found, fix_out,
          registry, t_in, t_loc, t_lists, t_out, util_call, util_out,
          manager_bound, sessions, files, response>>

(***************************************************************************)
(* analyze_presentation, one action per step of its body.                  *)
(***************************************************************************)
\* lines 41-50: defaults and the two empty collections
Begin ==
    /\ pc = "call"
    /\ enabled_rules' = RulesToRun(enabled_arg)
    /\ all_findings' = <<>>
    /\ rule_results' = EmptyDict
    /\ idx' = 1
    /\ pc' = "loop"
    /\ UNCHANGED <<doc, enabled_arg, raisers, calls, result>>
    /\ UNCHANGED <<score_vars, probe_vars, two_vars, util_vars, api_vars>>

\* variant: an id that is not registered ends the loop (break for continue)
SkipUnknownBreaks ==
    /\ pc = "loop"
    /\ idx <= Len(enabled_rules)
    /\ IsUnknownRule(enabled_rules[idx])
    /\ idx' = Len(enabled_rules) + 1
    /\ UNCHANGED <<doc, enabled_arg, raisers, pc, enabled_rules, all_findings,
                   rule_results, calls, result>>
    /\ UNCHANGED <<score_vars, probe_vars, two_vars, util_vars, api_vars>>

\* lines 54-56: an id that is not registered is skipped
SkipUnknown ==
    /\ pc = "loop"
    /\ idx <= Len(enabled_rules)
    /\ IsUnknownRule(enabled_rules[idx])
    /\ idx' = idx + 1
    /\ UNCHANGED <<doc, enabled_arg, raisers, pc, enabled_rules, all_findings,
                   rule_results, calls, result>>
    /\ UNCHANGED <<score_vars, probe_vars, two_vars, util_vars, api_vars>>

\* lines 58-65: the rule returns its findings
RunRule ==
    /\ pc = "loop"
    /\ idx <= Len(enabled_rules)
    /\ ~IsUnknownRule(enabled_rules[idx])
    /\ enabled_rules[idx] \notin raisers
    /\ LET rule_id == enabled_rules[idx]
           findings == RuleAnalyze(rule_id, doc)
       IN  /\ rule_results' = DictSet(rule_results, rule_id, findings)
           /\ all_findings' = all_findings \o findings
           /\ calls' = Append(calls, rule_id)
    /\ idx' = idx + 1
    /\ doc' = DocAfterAnalyze(enabled_rules[idx], doc)
    /\ UNCHANGED <<enabled_arg, raisers, pc, enabled_rules, result>>
    /\ UNCHANGED <<score_vars, probe_vars, two_vars, util_vars, api_vars>>

\* variant: no try/except, the rule's exception leaves analyze_presentation
RuleFailsPropagates ==
    /\ pc = "loop"
    /\ idx <= Len(enabled_rules)
    /\ ~IsUnknownRule(enabled_rules[idx])
    /\ enabled_rules[idx] \in raisers
    /\ calls' = Append(calls, enabled_rules[idx])
    /\ pc' = "raised"
    /\ UNCHANGED <<doc, enabled_arg, raisers, enabled_rules, idx, all_findings,
                   rule_results, result>>
    /\ UNCHANGED <<score_vars, probe_vars, two_vars, util_vars, api_vars>>

\* lines 58-62, 67-70: the rule raises and the loop goes on
RuleFails ==
    /\ pc = "loop"
    /\ idx <= Len(enabled_rules)
    /\ ~IsUnknownRule(enabled_rules[idx])
    /\ enabled_rules[idx] \in raisers
    /\ rule_results' = DictSet(rule_results, enabled_rules[idx], <<>>)
    /\ calls' = Append(calls, enabled_rules[idx])
    /\ idx' = idx + 1
    /\ doc' = DocAfterAnalyze(enabled_rules[idx], doc)
    /\ UNCHANGED <<enabled_arg, raisers, pc, enabled_rules, all_findings, result>>
    /\ UNCHANGED <<score_vars, probe_vars, two_vars, util_vars, api_vars>>

\* lines 81-95: the dict analyze_presentation returns, from its locals
ResultRecord(d, enabled, findings, rr, scores) ==
    [total_findings |-> Len(findings),
     findings |-> [i \in 1..Len(findings) |-> _finding_to_dict(findings[i])],
     findings_by_severity |-> _group_by_severity(findings),
     findings_by_slide |-> _group_by_slide(findings),
     rule_results |-> [r \in DOMAIN rr |-> Len(rr[r])],
     scores |-> scores,
     metadata |-> [slide_count |-> get_slide_count(d),
                   rules_run |-> enabled,
                   presentation_title |-> get_presentation_metadata(d).title]]

\* the dict analyze_presentation returns
AnalysisResult(scores) ==
    ResultRecord(doc, enabled_rules, all_findings, rule_results, scores)

\* lines 72-95: scores, groupings and the returned dict; an exception of
\* _calculate_scores leaves analyze_presentation
Finish ==
    /\ pc = "loop"
    /\ idx > Len(enabled_rules)
    /\ LET scores == _calculate_scores(all_findings, get_slide_count(doc))
       IN  IF scores.ok
           THEN /\ result' = Some(AnalysisResult(scores.val))
                /\ pc' = "returned"
           ELSE /\ result' = None
                /\ pc' = "raised"
    /\ UNCHANGED <<doc, enabled_arg, raisers, enabled_rules, idx, all_findings,
                   rule_results, calls>>
    /\ UNCHANGED <<score_vars, probe_vars, two_vars, util_vars, api_vars>>

OrchIdle ==
    /\ doc = EmptyDoc /\ enabled_arg = None /\ raisers = {}
    /\ pc = "idle" /\ enabled_rules = <<>> /\ idx = 1
    /\ all_findings = <<>> /\ rule_results = EmptyDict
    /\ calls = <<>> /\ result = None

ScoreIdle ==
    /\ score_findings = <<>> /\ score_slide_count = 0
    /\ scores_out = None /\ rule_score_out = None

ProbeIdle ==
    /\ probe_doc = EmptyDoc /\ probe_rule = "rule_01"
    /\ probe_found = None /\ fix_out = None

TwoIdle ==
    /\ registry = available_rules
    /\ t_in = <<>> /\ t_loc = <<>> /\ t_lists = <<>> /\ t_out = <<>>

UtilIdle == util_call = None /\ util_out = None
ApiIdle ==
    /\ manager_bound = FALSE
    /\ sessions = <<>>
    /\ files = <<>>
    /\ response = None

\* the registered rules a call with the given argument can reach
Reachable(arg) ==
    IF IsNone(arg) THEN RegisteredIds
    ELSE {r \in RegisteredIds : \E i \in 1..Len(Val(arg)) : Val(arg)[i] = r}

\* a call of analyze_presentation on a fresh analyzer; which rules raise is
\* chosen among those the call reaches (the others are never awaited)
Init ==
    /\ doc \in Docs
    /\ enabled_arg \in Requests
    /\ raisers \in SUBSET Reachable(enabled_arg)
    /\ pc = "call"
    /\ enabled_rules = <<>> /\ idx = 1
    /\ all_findings = <<>> /\ rule_results = EmptyDict
    /\ calls = <<>> /\ result = None
    /\ ScoreIdle
    /\ ProbeIdle
    /\ TwoIdle
    /\ UtilIdle
    /\ ApiIdle

Next == Begin \/ SkipUnknown \/ RunRule \/ RuleFails \/ Finish

Spec == Init /\ [][Next]_vars

(***************************************************************************)
(* The scoring functions on their own: _calculate_scores and               *)
(* BaseRule.calculate_score applied to lists of findings of every mix of   *)
(* severities.                                                             *)
(***************************************************************************)
\* most slides passed to _calculate_scores
MaxScoreSlides == 11
\* most CRITICAL findings in a scored list
MaxCritical == 11
\* most findings of each other severity in a scored list
MaxPerSeverity == 2

\* a finding of the given severity, as a rule would emit it
ProbeFinding(sev) ==
    Finding("rule_01", 1, None, sev, "Probe", MANUAL, [probe |-> TRUE])

\* n findings of one severity
Rep(sev, n) == [k \in 1..n |-> ProbeFinding(sev)]

ScoredLists ==
    {Rep(CRITICAL, c) \o Rep(HIGH, h) \o Rep(MEDIUM, m) \o Rep(LOW, l) \o Rep(INFO, i) :
        c \in 0..MaxCritical, h \in 0..MaxPerSeverity, m \in 0..MaxPerSeverity,
        l \in 0..MaxPerSeverity, i \in 0..MaxPerSeverity}

InitScore ==
    /\ OrchIdle
    /\ score_findings \in ScoredLists
    /\ score_slide_count \in 0..MaxScoreSlides
    /\ scores_out = None
    /\ rule_score_out = None
    /\ ProbeIdle
    /\ TwoIdle
    /\ UtilIdle
    /\ ApiIdle

\* scores = self._calculate_scores(findings, slide_count)
CalcScores ==
    /\ pc = "idle"
    /\ IsNone(scores_out)
    /\ scores_out' = Some(_calculate_scores(score_findings, score_slide_count))
    /\ UNCHANGED <<score_findings, score_slide_count, rule_score_out>>
    /\ UNCHANGED <<orch_vars, probe_vars, two_vars, util_vars, api_vars>>

\* score = rule.calculate_score(findings)
RuleScore ==
    /\ pc = "idle"
    /\ IsNone(rule_score_out)
    /\ rule_score_out' = Some(calculate_score(score_findings))
    /\ UNCHANGED <<score_findings, score_slide_count, scores_out>>
    /\ UNCHANGED <<orch_vars, probe_vars, two_vars, util_vars, api_vars>>

NextScore == CalcScores \/ RuleScore

SpecScore == InitScore /\ [][NextScore]_vars

\* both together
SpecAll == (Init \/ InitScore) /\ [][Next \/ NextScore]_vars

(***************************************************************************)
(* The rules on their own: analyze of one rule on a one-slide document,    *)
(* then apply_fix on one of the findings it returned.                      *)
(***************************************************************************)
\* most text shapes on a slide given to the Structure rule
MaxProbeShapes == 2

Hex(a, b) == <<"#", a, b, a, b, a, b>>

\* greys on both sides of the ratios 4.5, 3.0 and 2.0 against white, and red
ProbeColors ==
    {None, Some(Black), Some(Hex("7","6")), Some(Hex("7","7")),
     Some(Hex("9","4")), Some(Hex("9","5")), Some(Hex("b","7")),
     Some(Hex("b","8")), Some(LightGrey), Some(Hex("C","C")),
     Some(<<"#","f","f","0","0","0","0">>)}

Text50 == "12345678901234567890123456789012345678901234567890"
Text51 == "123456789012345678901234567890123456789012345678901"

GeorgiaPro == <<"G","e","o","r","g","i","a"," ","P","r","o">>
Cambria == <<"C","a","m","b","r","i","a">>
LowerGeorgia == <<"g","e","o","r","g","i","a">>

\* a run as _extract_text_frame_info reports it
ProbeRun(text, font_name, font_size, bold, italic, font_color) ==
    [text |-> text, font_name |-> font_name, font_size |-> font_size,
     bold |-> bold, italic |-> italic, font_color |-> font_color]

\* a text shape holding the given runs
ProbeShape(shape_id, is_placeholder, runs) ==
    [shape_id |-> shape_id, is_placeholder |-> is_placeholder,
     text_frame |-> Some([runs |-> runs])]

TitleOnly == <<"T","i","t","l","e"," ","O","n","l","y">>

ProbeLayouts ==
    {<<"B","l","a","n","k">>, <<"M","y"," ","B","L","A","N","K"," ","2">>,
     <<"B","l","a","n"," ","k">>, TitleOnly}

\* slides for the Structure rule: every title, layout and mix of shapes
StructureSlides ==
    {[title |-> t, layout_name |-> l,
      shapes |-> [k \in 1..Len(ps) |-> ProbeShape(k + 1, ps[k], <<RunPlain>>)]] :
        t \in {None, Some(""), Some("Hi"), Some("Q3"), Some("Agenda")},
        l \in ProbeLayouts,
        ps \in SeqsUpTo(BOOLEAN, MaxProbeShapes)}

\* slides for the Contrast rule: one run of every colour, size and weight
ContrastSlides ==
    {[title |-> Some("Agenda"), layout_name |-> TitleOnly,
      shapes |-> <<ProbeShape(7, TRUE,
                     <<ProbeRun("Body", Calibri, fs, b, None, c)>>)>>] :
        fs \in {None, Some(12), Some(14), Some(17), Some(18)},
        b \in {None, Some(FALSE), Some(TRUE)},
        c \in ProbeColors}

\* slides for the Fonts rule: one run of every size, family, slant and length
FontsSlides ==
    {[title |-> Some("Agenda"), layout_name |-> TitleOnly,
      shapes |-> <<ProbeShape(7, TRUE,
                     <<ProbeRun(tx, fn, fs, None, it, Some(Black))>>)>>] :
        tx \in {Text50, Text51},
        fn \in {Arial, UnknownFont, TimesNewRoman, Georgia, GeorgiaPro,
                LowerGeorgia, Cambria},
        fs \in {None, Some(12), Some(23), Some(24), Some(30)},
        it \in {None, Some(FALSE), Some(TRUE)}}

ProbeSlides(rule_id) ==
    CASE rule_id = "rule_01" -> StructureSlides
      [] rule_id = "rule_03" -> ContrastSlides
      [] rule_id = "rule_04" -> FontsSlides

\* await rule.apply_fix(presentation, finding, context)
RuleApplyFix(rule_id, d, finding) ==
    CASE rule_id = "rule_01" -> StructureRule_apply_fix(d, finding)
      [] rule_id = "rule_03" -> ContrastRule_apply_fix(d, finding)
      [] rule_id = "rule_04" -> FontsRule_apply_fix(d, finding)

InitProbe ==
    /\ OrchIdle
    /\ ScoreIdle
    /\ probe_rule \in RegisteredIds
    /\ \E s \in ProbeSlides(probe_rule) :
           probe_doc = [core_title |-> Some("Deck"), slides |-> <<s>>]
    /\ probe_found = None
    /\ fix_out = None
    /\ TwoIdle
    /\ UtilIdle
    /\ ApiIdle

\* findings = await rule.analyze(presentation, {})
ProbeAnalyze ==
    /\ pc = "idle"
    /\ IsNone(probe_found)
    /\ probe_found' = Some(RuleAnalyze(probe_rule, probe_doc))
    /\ probe_doc' = DocAfterAnalyze(probe_rule, probe_doc)
    /\ UNCHANGED <<probe_rule, fix_out>>
    /\ UNCHANGED <<orch_vars, score_vars, two_vars, util_vars, api_vars>>

\* applied = await rule.apply_fix(presentation, finding, {})
ProbeApplyFix ==
    /\ pc = "idle"
    /\ ~IsNone(probe_found)
    /\ IsNone(fix_out)
    /\ \E i \in 1..Len(Val(probe_found)) :
           LET out == RuleApplyFix(probe_rule, probe_doc, Val(probe_found)[i])
           IN  /\ fix_out' = Some([finding |-> Val(probe_found)[i],
                                   before |-> probe_doc,
                                   applied |-> out.applied])
               /\ probe_doc' = out.doc
    /\ UNCHANGED <<probe_rule, probe_found>>
    /\ UNCHANGED <<orch_vars, score_vars, two_vars, util_vars, api_vars>>

NextProbe == ProbeAnalyze \/ ProbeApplyFix

SpecProbe == InitProbe /\ [][NextProbe]_vars

\* analyze_presentation and the rules called directly
SpecCalls == (Init \/ InitProbe) /\ [][Next \/ NextProbe]_vars

\* font colours of the runs of one shape: three that parse (black passes,
\* the greys fail), none, and three strings that are not '#' + 6 hex digits
ContrastRunColors ==
    {None, Some(Black), Some(LightGrey), Some(Hex("b","7")),
     Some(<<"#","z","z","z","z","z","z">>), Some(<<"#","f","f">>),
     Some(<<"#","f","f","f","f","f">>)}

\* slides for the Contrast rule: one shape of three 12pt runs
ContrastRunSlides ==
    {[title |-> Some("Agenda"), layout_name |-> TitleOnly,
      shapes |-> <<ProbeShape(7, TRUE,
                     [r \in 1..3 |->
                         ProbeRun("Body", Calibri, Some(12), None, None, cs[r])])>>] :
        cs \in [1..3 -> ContrastRunColors]}

InitRuns ==
    /\ OrchIdle
    /\ ScoreIdle
    /\ probe_rule = "rule_03"
    /\ \E s \in ContrastRunSlides :
           probe_doc = [core_title |-> Some("Deck"), slides |-> <<s>>]
    /\ probe_found = None
    /\ fix_out = None
    /\ TwoIdle
    /\ UtilIdle
    /\ ApiIdle

\* the Contrast rule called on shapes of several runs
SpecRuns == InitRuns /\ [][NextProbe]_vars

(***************************************************************************)
(* Two invocations of analyze_presentation on one analyzer.  A coroutine   *)
(* runs undisturbed from one await to the next, so each invocation moves   *)
(* in steps that end at "await rule.analyze(...)" (line 62) or at return.  *)
(***************************************************************************)
Invocations == {1, 2}

TwoDocs ==
    {[core_title |-> Some("Deck"), slides |-> <<SlideBare>>],
     [core_title |-> None, slides |-> <<SlideGood, SlideShort>>]}

TwoRequests ==
    {None, Some(<<"rule_04", "rule_01">>), Some(<<"rule_02", "rule_03">>)}

\* variant: all_findings is one list of the analyzer, shared by invocations
FindingsListShared(i) == 1

\* the all_findings list invocation i works on: a local, created at line 49
FindingsList(i) == i

InitTwo ==
    /\ OrchIdle
    /\ ScoreIdle
    /\ ProbeIdle
    /\ UtilIdle
    /\ ApiIdle
    /\ registry = available_rules
    /\ t_in \in [Invocations -> [doc : TwoDocs, enabled_rules : TwoRequests,
                                raisers : {{}, {"rule_03"}}]]
    /\ t_loc = [i \in Invocations |->
                   [pc |-> "call", enabled_rules |-> <<>>, idx |-> 1,
                    rule_results |-> EmptyDict, met |-> {}]]
    /\ t_lists = [i \in Invocations |-> <<>>]
    /\ t_out = [i \in Invocations |-> None]

\* lines 41-50 of invocation i; met notes the invocations it finds waiting
\* at an await
TBegin(i) ==
    /\ t_loc # <<>>
    /\ t_loc[i].pc = "call"
    /\ t_loc' = [t_loc EXCEPT ![i] =
                     [pc |-> "loop",
                      enabled_rules |-> RulesToRun(t_in[i].enabled_rules),
                      idx |-> 1, rule_results |-> EmptyDict,
                      met |-> {j \in Invocations : t_loc[j].pc = "loop"}]]
    /\ t_lists' = [t_lists EXCEPT ![FindingsList(i)] = <<>>]
    /\ UNCHANGED <<registry, t_in, t_out>>
    /\ UNCHANGED <<orch_vars, score_vars, probe_vars, util_vars, api_vars>>

\* lines 53-70 of invocation i: one turn of the loop
TLoop(i) ==
    /\ t_loc # <<>>
    /\ t_loc[i].pc = "loop"
    /\ t_loc[i].idx <= Len(t_loc[i].enabled_rules)
    /\ LET rule_id == t_loc[i].enabled_rules[t_loc[i].idx]
           findings == RuleAnalyze(rule_id, t_in[i].doc)
       IN  IF IsUnknownRule(rule_id)
           THEN /\ t_loc' = [t_loc EXCEPT ![i].idx = @ + 1]
                /\ UNCHANGED t_lists
           ELSE IF rule_id \in t_in[i].raisers
           THEN /\ t_loc' = [t_loc EXCEPT
                                ![i].idx = @ + 1,
                                ![i].rule_results = DictSet(@, rule_id, <<>>)]
                /\ UNCHANGED t_lists
           ELSE /\ t_loc' = [t_loc EXCEPT
                                ![i].idx = @ + 1,
                                ![i].rule_results = DictSet(@, rule_id, findings)]
                /\ t_lists' = [t_lists EXCEPT ![FindingsList(i)] = @ \o findings]
    /\ UNCHANGED <<registry, t_in, t_out>>
    /\ UNCHANGED <<orch_vars, score_vars, probe_vars, util_vars, api_vars>>

\* lines 72-95 of invocation i
TFinish(i) ==
    /\ t_loc # <<>>
    /\ t_loc[i].pc = "loop"
    /\ t_loc[i].idx > Len(t_loc[i].enabled_rules)
    /\ LET findings == t_lists[FindingsList(i)]
           scores == _calculate_scores(findings, get_slide_count(t_in[i].doc))
       IN  /\ scores.ok
           /\ t_out' = [t_out EXCEPT ![i] =
                            Some(ResultRecord(t_in[i].doc, t_loc[i].enabled_rules,
                                              findings, t_loc[i].rule_results,
                                              scores.val))]
    /\ t_loc' = [t_loc EXCEPT ![i].pc = "returned"]
    /\ UNCHANGED <<registry, t_in, t_lists>>
    /\ UNCHANGED <<orch_vars, score_vars, probe_vars, util_vars, api_vars>>

NextTwo == \E i \in Invocations : TBegin(i) \/ TLoop(i) \/ TFinish(i)

SpecTwo == InitTwo /\ [][NextTwo]_vars

\* the loop of lines 53-70 run to its end from position k, on its own
RECURSIVE LoopAlone(_, _, _, _, _, _)
LoopAlone(d, enabled, rs, k, findings, rr) ==
    IF k > Len(enabled) THEN [all_findings |-> findings, rule_results |-> rr]
    ELSE IF IsUnknownRule(enabled[k])
    THEN LoopAlone(d, enabled, rs, k + 1, findings, rr)
    ELSE IF enabled[k] \in rs
    THEN LoopAlone(d, enabled, rs, k + 1, findings, DictSet(rr, enabled[k], <<>>))
    ELSE LoopAlone(d, enabled, rs, k + 1,
                   findings \o RuleAnalyze(enabled[k], d),
                   DictSet(rr, enabled[k], RuleAnalyze(enabled[k], d)))

\* what analyze_presentation returns for the given arguments when nothing
\* else runs on the analyzer
AnalyzeAlone(d, arg, rs) ==
    LET enabled == RulesToRun(arg)
        end == LoopAlone(d, enabled, rs, 1, <<>>, EmptyDict)
        scores == _calculate_scores(end.all_findings, get_slide_count(d))
    IN  ResultRecord(d, enabled, end.all_findings, end.rule_results, scores.val)

(***************************************************************************)
(* utils/color_utils.py called directly.                                   *)
(***************************************************************************)
\* what a caller may write for one channel, well-formed or not
HexChunks ==
    {<<>>, <<"f">>, <<"0","0">>, <<"F","f">>, <<"a","7">>, <<"g","0">>,
     <<"-","1">>, <<" ","9">>}

\* strings given to hex_to_rgb: up to two '#', three chunks, a tail
HexInputs ==
    {pre \o c1 \o c2 \o c3 \o post :
        pre \in {<<>>, <<"#">>, <<"#","#">>},
        c1 \in HexChunks, c2 \in HexChunks, c3 \in HexChunks,
        post \in {<<>>, <<"d","d">>}}

\* '#' and the two hex digits of v three times: a grey
Grey(v) == rgb_to_hex(v, v, v)

\* valid colours: greys of sixteen levels, the primaries and two mixed
\* colours whose channels are multiples of 20
UtilColors ==
    {Grey(v) : v \in {0, 5, 60, 90, 118, 119, 120, 128, 148, 149, 170, 180,
                      200, 204, 238, 255}}
    \cup {rgb_to_hex(255, 0, 0), rgb_to_hex(0, 255, 0), rgb_to_hex(0, 0, 255),
          rgb_to_hex(240, 180, 60), rgb_to_hex(100, 200, 220)}

UtilBackgrounds ==
    {<<"#","F","F","F","F","F","F">>, <<"#","0","0","0","0","0","0">>,
     Grey(128)}

\* target ratios in tenths: 1.0, 3.0, 4.5, 7.0, 21.0
UtilTargets == {10, 30, 45, 70, 210}

InitUtil ==
    /\ OrchIdle
    /\ ScoreIdle
    /\ ProbeIdle
    /\ TwoIdle
    /\ ApiIdle
    /\ \/ \E s \in HexInputs : util_call = Some([fn |-> "hex_to_rgb", arg |-> s])
       \/ \E a \in UtilColors, b \in UtilColors :
              util_call = Some([fn |-> "get_contrast_ratio",
                                arg |-> [color1 |-> a, color2 |-> b]])
       \/ \E fn \in {"suggest_darker_color", "suggest_lighter_color"},
             c \in UtilColors, t \in UtilTargets, bg \in UtilBackgrounds :
              util_call = Some([fn |-> fn,
                                arg |-> [hex_color |-> c, target_contrast |-> t,
                                         background |-> bg]])
    /\ util_out = None

\* rgb = hex_to_rgb(hex_color)
CallHexToRgb ==
    /\ pc = "idle"
    /\ ~IsNone(util_call)
    /\ Val(util_call).fn = "hex_to_rgb"
    /\ IsNone(util_out)
    /\ util_out' = Some(hex_to_rgb(Val(util_call).arg))
    /\ UNCHANGED util_call
    /\ UNCHANGED <<orch_vars, score_vars, probe_vars, two_vars, api_vars>>

\* ratio = get_contrast_ratio(color1, color2), and the call with the
\* arguments exchanged
CallContrastRatio ==
    /\ pc = "idle"
    /\ ~IsNone(util_call)
    /\ Val(util_call).fn = "get_contrast_ratio"
    /\ IsNone(util_out)
    /\ LET a == Val(util_call).arg
       IN  util_out' = Some([ratio |-> get_contrast_ratio(a.color1, a.color2),
                             exchanged |-> get_contrast_ratio(a.color2, a.color1)])
    /\ UNCHANGED util_call
    /\ UNCHANGED <<orch_vars, score_vars, probe_vars, two_vars, api_vars>>

\* suggested = suggest_darker_color(hex_color, target_contrast, background)
CallSuggestDarker ==
    /\ pc = "idle"
    /\ ~IsNone(util_call)
    /\ Val(util_call).fn = "suggest_darker_color"
    /\ IsNone(util_out)
    /\ LET a == Val(util_call).arg
       IN  util_out' = Some(suggest_darker_color(a.hex_color, a.target_contrast,
                                                 a.background))
    /\ UNCHANGED util_call
    /\ UNCHANGED <<orch_vars, score_vars, probe_vars, two_vars, api_vars>>

\* suggested = suggest_lighter_color(hex_color, target_contrast, background)
CallSuggestLighter ==
    /\ pc = "idle"
    /\ ~IsNone(util_call)
    /\ Val(util_call).fn = "suggest_lighter_color"
    /\ IsNone(util_out)
    /\ LET a == Val(util_call).arg
       IN  util_out' = Some(suggest_lighter_color(a.hex_color, a.target_contrast,
                                                  a.background))
    /\ UNCHANGED util_call
    /\ UNCHANGED <<orch_vars, score_vars, probe_vars, two_vars, api_vars>>

NextUtil ==
    CallHexToRgb \/ CallContrastRatio \/ CallSuggestDarker \/ CallSuggestLighter

SpecUtil == InitUtil /\ [][NextUtil]_vars

\* the colour utilities called directly and through the Contrast rule
SpecColor == (InitUtil \/ InitProbe) /\ [][NextUtil \/ NextProbe]_vars

(***************************************************************************)
(* api/routes/upload.py, api/routes/analysis.py and                        *)
(* core/session_manager.py: the HTTP routes over the session store.        *)
(***************************************************************************)
MaxSessions == 2

\* str(uuid.uuid4()): an id no session has yet
SessionIds == 1..MaxSessions

\* an id that was never handed out
NoSuchId == 0

DotPptx == <<".","p","p","t","x">>
DotPdf == <<".","p","d","f">>
OriginalDot == <<"o","r","i","g","i","n","a","l",".">>

\* file.filename of an upload
ApiFilenames ==
    {<<>>, <<"d","e","c","k">> \o DotPptx, OriginalDot \o <<"p","p","t","x">>,
     <<"D","e","c","k",".","P","P","T","X">>, <<"p","a","p","e","r">> \o DotPdf,
     <<"n","o","t","e","s",".","t","x","t">>}

ApiDoc == [core_title |-> Some("Deck"), slides |-> <<SlideBare, SlideGood>>]

\* the bytes of an upload: the first four bytes and, for a readable
\* presentation, the document PPTXReader makes of them
ApiContents ==
    {[magic |-> "PK", doc |-> Some(ApiDoc)], [magic |-> "PK", doc |-> None],
     [magic |-> "%PDF", doc |-> None], [magic |-> "other", doc |-> None]}

\* request.enabled_rules of an analyze request
ApiRequests == {None, Some(<<"rule_01">>)}

\* str.endswith
EndsWith(s, suffix) ==
    Len(s) >= Len(suffix) /\ SubSeq(s, Len(s) - Len(suffix) + 1, Len(s)) = suffix

_detect_file_type(filename, content) ==
    LET filename_lower == Lower(filename)
    IN  IF EndsWith(filename_lower, DotPptx) /\ content.magic = "PK" THEN Ok("pptx")
        ELSE IF ~EndsWith(filename_lower, DotPptx)
                /\ EndsWith(filename_lower, DotPdf) /\ content.magic = "%PDF"
        THEN Ok("pdf")
        ELSE IF content.magic = "PK" THEN Ok("pptx")
        ELSE IF content.magic = "%PDF" THEN Ok("pdf")
        ELSE Raise("ValueError")

\* uploads_dir / session_id / f"original.{file_type}"
UploadPath(session_id, file_type) ==
    <<session_id, OriginalDot \o (IF file_type = "pptx" THEN <<"p","p","t","x">>
                                  ELSE <<"p","d","f">>)>>

\* storage_root / "uploads" / session_id / session["filename"]
AnalyzePath(session_id, session) == <<session_id, session.filename>>

\* the session data create_session saves (created_at left out)
SessionData(session_id, filename, file_type) ==
    [session_id |-> session_id, status |-> "uploaded", filename |-> filename,
     file_type |-> file_type,
     metadata |-> [upload_path |-> UploadPath(session_id, file_type)],
     analysis |-> None]

\* a request and the response it got; before is the session store the
\* request found
Response(route, session_id, before, status_code, detail) ==
    Some([route |-> route, session_id |-> session_id, before |-> before,
          status_code |-> status_code, detail |-> detail])

\* `from pptx_accessibility.api.app import session_manager` raises
\* ImportError when the module has no such name: global_exception_handler
ImportFails(route, session_id) ==
    /\ ~manager_bound
    /\ response' = Response(route, session_id, sessions, 500, "Internal server error")
    /\ UNCHANGED <<manager_bound, sessions, files>>

\* session_manager.get_session raises FileNotFoundError, which no route of
\* analysis.py catches: global_exception_handler
SessionFileMissing(route, session_id) ==
    /\ manager_bound
    /\ session_id \notin DOMAIN sessions
    /\ response' = Response(route, session_id, sessions, 500, "Internal server error")
    /\ UNCHANGED <<manager_bound, sessions, files>>

\* POST /api/upload
upload_file ==
    /\ pc = "idle"
    /\ \E filename \in ApiFilenames, content \in ApiContents :
        \/ ImportFails("upload", NoSuchId)
        \/ /\ manager_bound
           /\ LET filename_lower == Lower(filename)
                  file_type == _detect_file_type(filename, content)
              IN  IF filename = <<>>
                  THEN /\ response' = Response("upload", NoSuchId, sessions, 400,
                                               "No filename provided")
                       /\ UNCHANGED <<sessions, files>>
                  ELSE IF ~(EndsWith(filename_lower, DotPptx)
                            \/ EndsWith(filename_lower, DotPdf))
                  THEN /\ response' = Response("upload", NoSuchId, sessions, 400,
                                   "Only .pptx and .pdf files are supported")
                       /\ UNCHANGED <<sessions, files>>
                  ELSE IF ~file_type.ok
                  THEN /\ response' = Response("upload", NoSuchId, sessions, 400,
                                               "Unsupported file type")
                       /\ UNCHANGED <<sessions, files>>
                  ELSE \E session_id \in SessionIds \ DOMAIN sessions :
                           /\ files' = DictSet(files,
                                  UploadPath(session_id, file_type.val), content)
                           /\ sessions' = DictSet(sessions, session_id,
                                  SessionData(session_id, filename, file_type.val))
                           /\ response' = Response("upload", session_id, sessions,
                                                   200, "uploaded")
           /\ UNCHANGED manager_bound
    /\ UNCHANGED <<orch_vars, score_vars, probe_vars, two_vars, util_vars>>

\* POST /api/analysis/{session_id}/analyze
analyze_presentation ==
    /\ pc = "idle"
    /\ \E session_id \in SessionIds \cup {NoSuchId}, request \in ApiRequests :
        \/ ImportFails("analyze", session_id)
        \/ SessionFileMissing("analyze", session_id)
        \/ /\ manager_bound
           /\ session_id \in DOMAIN sessions
           /\ LET session == sessions[session_id]
                  file_path == AnalyzePath(session_id, session)
              IN  IF session.file_type # "pptx"
                  THEN /\ response' = Response("analyze", session_id, sessions, 400,
                                               "Analysis not yet supported")
                       /\ UNCHANGED sessions
                  ELSE IF file_path \notin DOMAIN files
                  THEN /\ response' = Response("analyze", session_id, sessions, 404,
                                               "Uploaded file not found")
                       /\ UNCHANGED sessions
                  ELSE IF IsNone(files[file_path].doc)
                  THEN /\ response' = Response("analyze", session_id, sessions, 500,
                                               "Analysis failed")
                       /\ UNCHANGED sessions
                  ELSE LET results == AnalyzeAlone(Val(files[file_path].doc),
                                                   request, {})
                       IN  /\ sessions' = [sessions EXCEPT ![session_id] =
                                  [session EXCEPT !.status = "analyzed",
                                                  !.analysis = Some(results)]]
                           /\ response' = Response("analyze", session_id, sessions,
                                                   200, "analyzed")
           /\ UNCHANGED <<manager_bound, files>>
    /\ UNCHANGED <<orch_vars, score_vars, probe_vars, two_vars, util_vars>>

\* GET /api/analysis/{session_id}/findings and .../scores: the two routes
\* take the same steps up to the body they return
ReadAnalysis(route) ==
    /\ pc = "idle"
    /\ \E session_id \in SessionIds \cup {NoSuchId} :
        \/ ImportFails(route, session_id)
        \/ SessionFileMissing(route, session_id)
        \/ /\ manager_bound
           /\ session_id \in DOMAIN sessions
           /\ IF sessions[session_id].status # "analyzed"
              THEN response' = Response(route, session_id, sessions, 400,
                                        "No analysis results available")
              ELSE response' = Response(route, session_id, sessions, 200, "ok")
           /\ UNCHANGED <<manager_bound, sessions, files>>
    /\ UNCHANGED <<orch_vars, score_vars, probe_vars, two_vars, util_vars>>

get_findings == ReadAnalysis("findings")

get_scores == ReadAnalysis("scores")

\* the module api.app as shipped binds no session_manager (FALSE); a
\* deployment that binds the name to a SessionManager is TRUE
InitApi ==
    /\ OrchIdle
    /\ ScoreIdle
    /\ ProbeIdle
    /\ TwoIdle
    /\ UtilIdle
    /\ manager_bound \in BOOLEAN
    /\ sessions = <<>>
    /\ files = <<>>
    /\ response = None

NextApi == upload_file \/ analyze_presentation \/ get_findings \/ get_scores

SpecApi == InitApi /\ [][NextApi]_vars

(***************************************************************************)
(* Properties of analyze_presentation.                                     *)
(***************************************************************************)
\* the ids the caller asked for, the registry's when it passed none
Requested == IF enabled_arg = <<>> THEN <<"rule_01", "rule_03", "rule_04">>
             ELSE enabled_arg[1]

RequestedIds == {Requested[i] : i \in 1..Len(Requested)}

\* the entries of a finding list that carry the given rule id, in order
FindingsOf(fs, r) ==
    LET FromRule(f) == f.rule_id = r
    IN  SelectSeq(fs, FromRule)

\* what the rule emits on the document, in the returned (dict) form
Emitted(r) ==
    LET fs == RuleAnalyze(r, doc)
    IN  [i \in 1..Len(fs) |-> _finding_to_dict(fs[i])]

Occurrences(s, x) == Cardinality({i \in 1..Len(s) : s[i] = x})

RECURSIVE Repeat(_, _)
Repeat(s, n) == IF n = 0 THEN <<>> ELSE s \o Repeat(s, n - 1)

Returned == pc = "returned" /\ result # <<>>

\* C1: whichever registered rules raise and whatever the caller lists,
\* analyze_presentation never raises and returns a result; its finding list
\* holds, for each registered rule, exactly what the rule emitted (once per
\* listing) if it did not raise and nothing if it did, and rule_results
\* records 0 for each listed rule that raised.
C1_FailuresIsolated ==
    /\ pc # "raised"
    /\ pc = "returned" => result # <<>>
    /\ Returned =>
         LET res == result[1]
         IN  /\ \A i \in 1..Len(res.findings) :
                    res.findings[i].rule_id \in RequestedIds \ raisers
             /\ \A r \in {"rule_01", "rule_03", "rule_04"} :
                    FindingsOf(res.findings, r) =
                        IF r \in raisers THEN <<>>
                        ELSE Repeat(Emitted(r), Occurrences(Requested, r))
             /\ \A r \in raisers \cap RequestedIds :
                    r \in DOMAIN res.rule_results /\ res.rule_results[r] = 0

\* a rule raised, another listed rule did not, and its findings came back
C1_Witness ==
    /\ Returned
    /\ raisers \cap RequestedIds # {}
    /\ result[1].total_findings > 0
    /\ \E r \in raisers \cap RequestedIds : Len(Emitted(r)) > 0

RegistryIndex(r) ==
    CASE r = "rule_01" -> 1 [] r = "rule_03" -> 2 [] r = "rule_04" -> 3

\* C2 as stated: the returned findings are in rule registration order
\* (rule_01, rule_03, rule_04) for every enabled_rules the caller passes.
C2_RegistrationOrder ==
    Returned =>
        LET fs == result[1].findings
        IN  \A i, j \in 1..Len(fs) :
                i < j => RegistryIndex(fs[i].rule_id) <= RegistryIndex(fs[j].rule_id)

\* C2 amended: the returned findings are the concatenation, in the order of
\* the enabled_rules the caller passed (registry order when it passed none),
\* of what each listed registered rule emitted, in its emission order.
C2_RequestOrder ==
    Returned =>
        result[1].findings =
            SeqConcat([k \in 1..Len(Requested) |->
                IF Requested[k] \in {"rule_01", "rule_03", "rule_04"} \ raisers
                THEN Emitted(Requested[k]) ELSE <<>>])

\* a later-registered rule was listed first and both emitted findings
C2_Witness ==
    /\ Returned
    /\ enabled_arg # <<>>
    /\ LET fs == result[1].findings
       IN  \E i, j \in 1..Len(fs) :
               i < j /\ RegistryIndex(fs[i].rule_id) > RegistryIndex(fs[j].rule_id)

\* C3: an id that is not registered is skipped without raising: it gets no
\* entry in rule_results and no finding, and analyze is awaited on every
\* listed id that is registered, in the order listed.
C3_UnknownSkipped ==
    /\ pc # "raised"
    /\ Returned =>
         LET res == result[1]
             Known(id) == id \in {"rule_01", "rule_03", "rule_04"}
         IN  /\ \A u \in RequestedIds :
                    ~Known(u) =>
                        /\ u \notin DOMAIN res.rule_results
                        /\ FindingsOf(res.findings, u) = <<>>
             /\ calls = SelectSeq(Requested, Known)
             /\ DOMAIN res.rule_results = {id \in RequestedIds : Known(id)}

\* an unknown id was listed before a registered rule that emitted findings
C3_Witness ==
    /\ Returned
    /\ Len(Requested) = 2
    /\ Requested[1] = "rule_02"
    /\ Requested[2] \in {"rule_01", "rule_03", "rule_04"}
    /\ result[1].total_findings > 0

\* C8: findings_by_severity has exactly the five keys, each the number of
\* returned findings of that severity.
C8_BySeverity ==
    Returned =>
        LET res == result[1]
        IN  /\ DOMAIN res.findings_by_severity =
                   {"critical", "high", "medium", "low", "info"}
            /\ \A name \in DOMAIN res.findings_by_severity :
                   res.findings_by_severity[name] =
                       Cardinality({i \in 1..Len(res.findings) :
                                        res.findings[i].severity = name})

\* findings came back, with a bucket at zero and another above one
C8_Witness ==
    /\ Returned
    /\ result[1].findings_by_severity["high"] = 0
    /\ result[1].findings_by_severity["medium"] > 1

\* C9: the keys of findings_by_slide are exactly the slide numbers of the
\* returned findings, each mapped to the number of findings on that slide.
C9_BySlide ==
    Returned =>
        LET res == result[1]
        IN  /\ DOMAIN res.findings_by_slide =
                   {res.findings[i].slide_number : i \in 1..Len(res.findings)}
            /\ \A n \in DOMAIN res.findings_by_slide :
                   /\ res.findings_by_slide[n] =
                          Cardinality({i \in 1..Len(res.findings) :
                                           res.findings[i].slide_number = n})
                   /\ res.findings_by_slide[n] > 0

\* a clean first slide, several findings on the second
C9_Witness ==
    /\ Returned
    /\ Len(doc.slides) = 2
    /\ DOMAIN result[1].findings_by_slide = {2}
    /\ result[1].findings_by_slide[2] > 1

\* C10: with enabled_rules omitted, analyze is awaited once on each
\* registered rule, in registry order, and rule_results has an entry for
\* each of them.
C10_DefaultRunsAll ==
    (Returned /\ enabled_arg = <<>>) =>
        /\ calls = <<"rule_01", "rule_03", "rule_04">>
        /\ DOMAIN result[1].rule_results = {"rule_01", "rule_03", "rule_04"}

\* the default list ran on a document with findings, one rule raising
C10_Witness ==
    /\ Returned
    /\ enabled_arg = <<>>
    /\ raisers = {"rule_03"}
    /\ result[1].total_findings > 0

(***************************************************************************)
(* Properties of the scoring functions.                                    *)
(***************************************************************************)
\* the number of entries of the scored list with the given severity value
Scored(name) ==
    Cardinality({i \in 1..Len(score_findings) :
                     score_findings[i].severity.value = name})

\* twice the weighted penalty 10/5/2/1/0.5 of the scored list
ScoredWeight2 ==
    20 * Scored("critical") + 10 * Scored("high") + 4 * Scored("medium")
        + 2 * Scored("low") + Scored("info")

Scoring == scores_out # <<>>

\* C4: for slide_count > 0 the reported overall_score is
\* max(0, 100 - (10*critical + 5*high + 2*medium + low + 0.5*info) / slide_count)
\* rounded to one decimal (no tenth is nearer to the exact value), and
\* 2 HIGH findings on 10 slides give 99.0 with grade A.
C4_OverallScore ==
    (Scoring /\ score_slide_count > 0) =>
        LET out == scores_out[1]
            n == score_slide_count
            exact2n == IF 200 * n - ScoredWeight2 > 0
                       THEN 200 * n - ScoredWeight2 ELSE 0
            off == 2 * n * out.val.overall_score - 10 * exact2n
        IN  /\ out.ok
            /\ off <= n /\ 0 - off <= n
            /\ (n = 10 /\ Scored("high") = 2 /\ Len(score_findings) = 2) =>
                   (out.val.overall_score = 990 /\ out.val.grade = "A")

\* 2 HIGH findings on 10 slides were scored
C4_Witness ==
    /\ Scoring
    /\ score_slide_count = 10
    /\ Scored("high") = 2
    /\ Len(score_findings) = 2

\* the grade the mapping gives a score in tenths
GradeOfTenths(t) ==
    IF t >= 900 THEN "A"
    ELSE IF t >= 750 THEN "B"
    ELSE IF t >= 600 THEN "C"
    ELSE IF t >= 400 THEN "D"
    ELSE "F"

\* C5: in every scores record the grade is the one the mapping (A from 90,
\* B from 75, C from 60, D from 40, F below) assigns to the overall_score
\* of that record.
C5_GradeOfReported ==
    (Scoring /\ scores_out[1].ok) =>
        scores_out[1].val.grade = GradeOfTenths(scores_out[1].val.overall_score)

\* C6: with zero slides scoring returns overall_score 100 and grade A, and
\* nothing else, whatever the findings, without a ZeroDivisionError, and
\* analyze_presentation returns that record and does not raise.
C6_ZeroSlides ==
    /\ pc # "raised"
    /\ (Returned /\ Len(doc.slides) = 0) =>
           result[1].scores = [overall_score |-> 1000, grade |-> "A"]
    /\ (Scoring /\ score_slide_count = 0) =>
           scores_out[1] = [ok |-> TRUE,
                            val |-> [overall_score |-> 1000, grade |-> "A"]]

\* findings were scored against zero slides
C6_Witness ==
    /\ Scoring
    /\ score_slide_count = 0
    /\ Scored("critical") > 0

\* C7: calculate_score is 100.0 for no findings and otherwise 100 minus the
\* severity weights (CRITICAL 10, HIGH 5, MEDIUM 2, LOW 1, INFO 0.5) of the
\* findings, floored at 0, to one decimal, hence within [0, 100].
C7_RuleScore ==
    rule_score_out # <<>> =>
        /\ rule_score_out[1] =
               IF score_findings = <<>> THEN 1000
               ELSE IF 1000 - 5 * ScoredWeight2 > 0
                    THEN 1000 - 5 * ScoredWeight2 ELSE 0
        /\ rule_score_out[1] >= 0 /\ rule_score_out[1] <= 1000

(***************************************************************************)
(* Properties of the result's metadata, of fixes and of invocations.       *)
(***************************************************************************)
\* C11: metadata.rules_run lists exactly the registered rule ids whose
\* analyze was awaited in the invocation, in that order, hence no id that
\* was skipped as unknown.
C11_RulesRunExecuted ==
    Returned =>
        /\ result[1].metadata.rules_run = calls
        /\ \A i \in 1..Len(result[1].metadata.rules_run) :
               result[1].metadata.rules_run[i] \in {"rule_01", "rule_03", "rule_04"}

\* C12 as stated: apply_fix of each shipped rule returns False for every
\* finding, whatever its action_type, and leaves the document as it was.
C12_FixNotApplied ==
    fix_out # <<>> =>
        /\ fix_out[1].applied = FALSE
        /\ probe_doc = fix_out[1].before

AloneAgrees ==
    Returned => result[1] = AnalyzeAlone(doc, enabled_arg, raisers)

\* C13: with two invocations on one analyzer, one after the other or
\* interleaved at their awaits, each returns what it would return running
\* alone on its arguments, and the registry stays what __init__ built.
C13_InvocationsIndependent ==
    t_out # <<>> =>
        /\ registry = <<"rule_01", "rule_03", "rule_04">>
        /\ \A i \in {1, 2} :
               t_out[i] # <<>> =>
                   t_out[i][1] = AnalyzeAlone(t_in[i].doc, t_in[i].enabled_rules,
                                              t_in[i].raisers)

\* both returned findings on different arguments, the second having begun
\* while the first was waiting in its loop
C13_Witness ==
    /\ t_out # <<>>
    /\ t_out[1] # <<>> /\ t_out[2] # <<>>
    /\ t_loc[2].met = {1}
    /\ t_in[1] # t_in[2]
    /\ t_out[1][1].total_findings > 0 /\ t_out[2][1].total_findings > 0
    /\ t_out[1][1].findings # t_out[2][1].findings

(***************************************************************************)
(* Properties of the rules.                                                *)
(***************************************************************************)
\* the slide a rule called directly was given, and what it returned
ProbeSlide == probe_doc.slides[1]
Probed(rule_id) == probe_rule = rule_id /\ probe_found # <<>> /\ fix_out = <<>>
Found == probe_found[1]

\* the positions of the returned findings that carry the given title
Titled(t) == {i \in 1..Len(Found) : Found[i].title = t}

\* C15: per slide the Structure rule emits at most one title finding:
\* CRITICAL "Missing slide title" (SUGGEST, no shape id, the layout name in
\* its metadata) iff the slide has no title or an empty one, MEDIUM "Title
\* too short" iff the title is non-empty and shorter than 3 characters; a
\* slide with no title on a non-blank layout yields that one finding only.
C15_TitleFinding ==
    Probed("rule_01") =>
        LET t == ProbeSlide.title
            missing == t = <<>> \/ t[1] = ""
            short == ~missing /\ Len(t[1]) < 3
        IN  /\ Cardinality(Titled("Missing slide title")) = (IF missing THEN 1 ELSE 0)
            /\ Cardinality(Titled("Title too short")) = (IF short THEN 1 ELSE 0)
            /\ \A i \in Titled("Missing slide title") :
                   /\ Found[i].severity = [enum |-> "Severity", value |-> "critical"]
                   /\ Found[i].action_type = [enum |-> "ActionType", value |-> "suggest"]
                   /\ Found[i].shape_id = <<>>
                   /\ Found[i].slide_number = 1
                   /\ Found[i].metadata.layout_name = ProbeSlide.layout_name
            /\ \A i \in Titled("Title too short") :
                   Found[i].severity = [enum |-> "Severity", value |-> "medium"]
            /\ (t = <<>> /\ ProbeSlide.layout_name = <<"T","i","t","l","e"," ","O","n","l","y">>)
                   => Len(Found) = 1

\* a two-letter title was judged
C15_Witness ==
    /\ Probed("rule_01")
    /\ ProbeSlide.title = <<"Hi">>
    /\ Len(ProbeSlide.shapes) = 2
    /\ Len(Found) = 1

\* C16: per slide the Structure rule emits the MEDIUM "Blank layout with
\* text boxes" finding iff the layout name contains "blank" in any letter
\* case and some text shape is not a placeholder, whatever the title check
\* gave; a slide yields 0, 1 or 2 findings, the title finding first.
C16_LayoutFinding ==
    Probed("rule_01") =>
        LET blankish == ProbeSlide.layout_name \in
                            {<<"B","l","a","n","k">>,
                             <<"M","y"," ","B","L","A","N","K"," ","2">>}
            loose == \E k \in 1..Len(ProbeSlide.shapes) :
                         ~ProbeSlide.shapes[k].is_placeholder
            layouts == Titled("Blank layout with text boxes")
            titles == Titled("Missing slide title") \cup Titled("Title too short")
        IN  /\ Cardinality(layouts) = (IF blankish /\ loose THEN 1 ELSE 0)
            /\ \A i \in layouts :
                   Found[i].severity = [enum |-> "Severity", value |-> "medium"]
            /\ Len(Found) \in {0, 1, 2}
            /\ Len(Found) = Cardinality(layouts) + Cardinality(titles)
            /\ Cardinality(titles) <= 1
            /\ \A i \in titles : \A j \in layouts : i < j

\* an untitled slide on an upper-case blank layout gave both findings
C16_Witness ==
    /\ Probed("rule_01")
    /\ ProbeSlide.layout_name = <<"M","y"," ","B","L","A","N","K"," ","2">>
    /\ ProbeSlide.title = <<>>
    /\ Len(Found) = 2

\* the one run of the slide given to the Contrast or Fonts rule
ProbedRun == ProbeSlide.shapes[1].text_frame[1].runs[1]

\* C17: a run with a font colour gets exactly one AUTO_FIX finding from the
\* Contrast rule iff its ratio against white is below the AA threshold, 3.0
\* for large text (size >= 18, or size >= 14 and bold) and 4.5 otherwise
\* (of the colours drawn, black and the grey 0x76 reach 4.5, and these, the
\* grey 0x94 and red reach 3.0); a ratio equal to the threshold passes.
C17_ContrastFinding ==
    (Probed("rule_03") /\ ProbedRun.font_color # <<>>) =>
        LET size == ProbedRun.font_size
            large == size # <<>> /\
                     (size[1] >= 18 \/ (size[1] >= 14 /\ ProbedRun.bold = <<TRUE>>))
            color == ProbedRun.font_color[1]
            ratio == get_contrast_ratio(color, <<"#","F","F","F","F","F","F">>).val
            below == IF large THEN 10 * ratio.num < 30 * ratio.den
                     ELSE 10 * ratio.num < 45 * ratio.den
            reach45 == {<<"#","0","0","0","0","0","0">>,
                        <<"#","7","6","7","6","7","6">>}
            reach30 == reach45 \cup {<<"#","7","7","7","7","7","7">>,
                                     <<"#","9","4","9","4","9","4">>,
                                     <<"#","f","f","0","0","0","0">>}
        IN  /\ below <=> (color \notin (IF large THEN reach30 ELSE reach45))
            /\ Len(Found) = (IF below THEN 1 ELSE 0)
            /\ \A i \in 1..Len(Found) :
                   /\ Found[i].action_type = [enum |-> "ActionType", value |-> "auto_fix"]
                   /\ Found[i].title = "Insufficient color contrast"
            /\ meets_wcag_aa([num |-> 45, den |-> 10], FALSE)
            /\ meets_wcag_aa([num |-> 30, den |-> 10], TRUE)

\* an 18pt run in the grey 0x77 passed as large text
C17_Witness ==
    /\ Probed("rule_03")
    /\ ProbedRun.font_color = <<Hex("7", "7")>>
    /\ ProbedRun.font_size = <<18>>
    /\ ProbedRun.bold = <<FALSE>>
    /\ Len(Found) = 0

\* C18: a Contrast finding is CRITICAL iff its ratio is below 2.0, HIGH iff
\* it is in [2.0, 3.0) and MEDIUM iff it is at least 3.0 (of the colours
\* drawn, the greys from 0xb8 up are below 2.0, the greys 0x95 and 0xb7 in
\* [2.0, 3.0)); a 12pt run that is not bold, coloured #CCCCCC, gets a
\* CRITICAL finding whose metadata has is_large_text False.
C18_ContrastSeverity ==
    (Probed("rule_03") /\ Len(Found) > 0) =>
        LET color == ProbedRun.font_color[1]
            ratio == get_contrast_ratio(color, <<"#","F","F","F","F","F","F">>).val
            level == IF 10 * ratio.num < 20 * ratio.den THEN "critical"
                     ELSE IF 10 * ratio.num < 30 * ratio.den THEN "high"
                     ELSE "medium"
            known == IF color \in {<<"#","b","8","b","8","b","8">>,
                                   <<"#","c","c","c","c","c","c">>,
                                   <<"#","C","C","C","C","C","C">>}
                     THEN "critical"
                     ELSE IF color \in {<<"#","9","5","9","5","9","5">>,
                                        <<"#","b","7","b","7","b","7">>}
                     THEN "high"
                     ELSE "medium"
        IN  /\ level = known
            /\ \A i \in 1..Len(Found) :
                   /\ Found[i].severity = [enum |-> "Severity", value |-> level]
                   /\ (/\ color = <<"#","C","C","C","C","C","C">>
                       /\ ProbedRun.font_size = <<12>>
                       /\ ProbedRun.bold # <<TRUE>>)
                      => /\ level = "critical"
                         /\ Found[i].metadata.is_large_text = [t |-> "bool", v |-> FALSE]

\* the 12pt #CCCCCC run that is not bold was judged
C18_Witness ==
    /\ Probed("rule_03")
    /\ ProbedRun.font_color = <<<<"#","C","C","C","C","C","C">>>>
    /\ ProbedRun.font_size = <<12>>
    /\ ProbedRun.bold = <<FALSE>>
    /\ Len(Found) = 1

WellFormedHex(s) ==
    LET digits == IF s # <<>> /\ s[1] = "#" THEN Tail(s) ELSE s
    IN  /\ Len(digits) = 6
        /\ \A i \in 1..6 :
               digits[i] \in {"0","1","2","3","4","5","6","7","8","9",
                              "a","b","c","d","e","f","A","B","C","D","E","F"}

\* C20: hex_to_rgb raises for every input that is not six hexadecimal
\* digits with at most one '#' before them, and returns three channels in
\* 0..255 for every input that is, in either letter case.
C20_HexToRgb ==
    (util_out # <<>> /\ util_call[1].fn = "hex_to_rgb") =>
        IF WellFormedHex(util_call[1].arg)
        THEN /\ util_out[1].ok
             /\ \A k \in 1..3 : util_out[1].val[k] \in 0..255
        ELSE ~util_out[1].ok

(***************************************************************************)
(* Further properties of the Analysis Result.                              *)
(***************************************************************************)
\* the sum of the values of a dict of numbers
RECURSIVE SumValues(_)
SumValues(d) ==
    IF DOMAIN d = {} THEN 0
    ELSE LET k == CHOOSE x \in DOMAIN d : TRUE
         IN  d[k] + SumValues([x \in DOMAIN d \ {k} |-> d[x]])

\* C26: in every result, whatever enabled_rules lists (a repeated id
\* included), total_findings is the length of the finding list, the sum of
\* the findings_by_severity values, the sum of the findings_by_slide values
\* and the sum of the counts in rule_results.
C26_TotalsAgree ==
    Returned =>
        LET res == result[1]
        IN  /\ res.total_findings = Len(res.findings)
            /\ res.total_findings = SumValues(res.findings_by_severity)
            /\ res.total_findings = SumValues(res.findings_by_slide)
            /\ res.total_findings = SumValues(res.rule_results)

\* C28: every returned finding has a slide_number within 1..slide_count of
\* the document and the rule_id of a registered rule that was listed (or
\* run by default) and whose analyze returned without raising.
C28_FindingsWellPlaced ==
    Returned =>
        \A i \in 1..Len(result[1].findings) :
            LET f == result[1].findings[i]
            IN  /\ f.slide_number \in 1..Len(doc.slides)
                /\ f.slide_number \in 1..result[1].metadata.slide_count
                /\ f.rule_id \in {"rule_01", "rule_03", "rule_04"}
                /\ f.rule_id \in RequestedIds
                /\ f.rule_id \notin raisers
                /\ f.rule_id \in DOMAIN result[1].rule_results

\* findings came back for both slides of a document while a listed rule raised
C28_Witness ==
    /\ Returned
    /\ Len(doc.slides) = 2
    /\ raisers \cap RequestedIds # {}
    /\ DOMAIN result[1].findings_by_slide = {1, 2}

\* C27: the is_large_text entry in the metadata of every Contrast finding
\* is a boolean, whatever the font size of the run (absent included).
C27_LargeTextIsBoolean ==
    Probed("rule_03") =>
        \A i \in 1..Len(Found) : Found[i].metadata.is_large_text.t = "bool"

\* the document without run r of the only shape of its only slide
WithoutRun(d, r) ==
    LET runs == d.slides[1].shapes[1].text_frame[1].runs
        rest == [i \in 1..(Len(runs) - 1) |-> IF i < r THEN runs[i] ELSE runs[i + 1]]
    IN  [d EXCEPT !.slides[1].shapes[1].text_frame[1].runs = rest]

\* C25: a run with no colour, or with a colour that is not '#' followed by
\* 6 hex digits, gets no finding from the Contrast rule, and the findings
\* returned are those of the document without that run.
C25_BestEffortPerRun ==
    Probed("rule_03") =>
        LET runs == ProbeSlide.shapes[1].text_frame[1].runs
        IN  \A r \in 1..Len(runs) :
                (\/ runs[r].font_color = <<>>
                 \/ ~WellFormedHex(runs[r].font_color[1]))
                => /\ \A i \in 1..Len(Found) :
                          <<Found[i].metadata.current_color>> # runs[r].font_color
                   /\ Found = ContrastRule_analyze(WithoutRun(probe_doc, r))

UtilCalled(fn) == util_out # <<>> /\ util_call[1].fn = fn
White == <<"#","F","F","F","F","F","F">>

\* C21: get_contrast_ratio gives the same ratio for (a, b) and (b, a), a
\* ratio between 1 and 21, and exactly 1 for a colour against itself.
C21_ContrastRatio ==
    UtilCalled("get_contrast_ratio") =>
        LET a == util_call[1].arg
            out == util_out[1]
        IN  /\ out.ratio.ok
            /\ out.exchanged = out.ratio
            /\ out.ratio.val.num >= out.ratio.val.den
            /\ out.ratio.val.num <= 21 * out.ratio.val.den
            /\ a.color1 = a.color2 => out.ratio.val.num = out.ratio.val.den

\* black against white: the darker colour given first, the ratio is 21
C21_Witness ==
    /\ UtilCalled("get_contrast_ratio")
    /\ util_call[1].arg.color1 = Grey(0)
    /\ util_call[1].arg.color2 = Grey(255)
    /\ util_out[1].ratio.val.num = 21 * util_out[1].ratio.val.den

\* the suggested colour reaches the ratio target (in tenths) on background
\* and has no channel above that of the colour it replaces
DarkEnough(suggested, hex_color, target, background) ==
    /\ RatioAtLeast(get_contrast_ratio(suggested, background).val, target)
    /\ \A k \in 1..3 : hex_to_rgb(suggested).val[k] <= hex_to_rgb(hex_color).val[k]

\* C22: against white and for the targets 3.0 and 4.5, suggest_darker_color
\* returns a colour that reaches the target and has no channel above the
\* input's; so the suggested_color of a Contrast finding reaches the
\* finding's required_ratio against its background_color.
C22_DarkerMeetsTarget ==
    /\ (/\ UtilCalled("suggest_darker_color")
        /\ util_call[1].arg.background = White
        /\ util_call[1].arg.target_contrast \in {30, 45})
       => /\ util_out[1].ok
          /\ DarkEnough(util_out[1].val, util_call[1].arg.hex_color,
                        util_call[1].arg.target_contrast, White)
    /\ Probed("rule_03") =>
           \A i \in 1..Len(Found) :
               LET md == Found[i].metadata
               IN  DarkEnough(md.suggested_color, md.current_color,
                              md.required_ratio, md.background_color)

\* the light grey 0xee was darkened in several steps to reach 4.5
C22_Witness ==
    /\ UtilCalled("suggest_darker_color")
    /\ util_call[1].arg = [hex_color |-> Grey(238), target_contrast |-> 45,
                           background |-> White]
    /\ util_out[1].ok
    /\ util_out[1].val \notin {Grey(0), darker_hex(<<238, 238, 238>>, 1)}

\* the k-th candidate with every channel scaled in exact arithmetic
StatedCandidate(fn, rgb, k) ==
    IF fn = "suggest_darker_color"
    THEN rgb_to_hex((rgb[1] * (20 - k)) \div 20, (rgb[2] * (20 - k)) \div 20,
                    (rgb[3] * (20 - k)) \div 20)
    ELSE rgb_to_hex((20 * rgb[1] + (255 - rgb[1]) * k) \div 20,
                    (20 * rgb[2] + (255 - rgb[2]) * k) \div 20,
                    (20 * rgb[3] + (255 - rgb[3]) * k) \div 20)

\* C23: suggest_darker_color and suggest_lighter_color return the candidate
\* floor(c * (1 - 0.05k)), or floor(c + (255 - c) * 0.05k), of the smallest
\* k in 1..19 that reaches the target, and black, or white, when no k does.
C23_SearchAsStated ==
    \A fn \in {"suggest_darker_color", "suggest_lighter_color"} :
        UtilCalled(fn) =>
            LET a == util_call[1].arg
                rgb == hex_to_rgb(a.hex_color).val
                meets == {k \in 1..19 :
                             RatioAtLeast(get_contrast_ratio(StatedCandidate(fn, rgb, k),
                                                             a.background).val,
                                          a.target_contrast)}
                first == CHOOSE k \in meets : \A j \in meets : k <= j
            IN  util_out[1] =
                    Ok(IF meets # {} THEN StatedCandidate(fn, rgb, first)
                       ELSE IF fn = "suggest_darker_color" THEN Grey(0)
                       ELSE White)

\* C24: the colour returned by suggest_darker_color and by
\* suggest_lighter_color reaches the target against the background given.
C24_FallbackSafe ==
    \A fn \in {"suggest_darker_color", "suggest_lighter_color"} :
        UtilCalled(fn) =>
            /\ util_out[1].ok
            /\ RatioAtLeast(get_contrast_ratio(util_out[1].val,
                                               util_call[1].arg.background).val,
                            util_call[1].arg.target_contrast)

\* the last request went to the given route
Answered(route) == response # <<>> /\ response[1].route = route

C30_UnknownSessionIs404 ==
    \A route \in {"analyze", "findings", "scores"} :
        (Answered(route) /\ response[1].session_id \notin DOMAIN response[1].before)
        => /\ response[1].status_code = 404
           /\ response[1].detail = "Session not found"
           /\ sessions = response[1].before
====
